---- MODULE Spec2Model ----
(***************************************************************************)
(* A model of the tracker: the rate-limited message dispatcher (Bot,       *)
(* src/src/bot.ts) and the poll cycle of the internal-transfer monitor     *)
(* (TransactionMonitor.monitorContracts, src/src/monitor.ts 498-713).      *)
(*                                                                         *)
(* Time is in milliseconds.  JavaScript runs each continuation between two *)
(* awaits to completion, so every action below is one such continuation.   *)
(***************************************************************************)
EXTENDS Integers, Sequences, FiniteSets, TLC

VARIABLES
    \* ---- Bot (src/src/bot.ts)
    messageQueue,            \* QueuedMessage[]: <<[id, chatId, retryCount]>>
    isProcessingQueue,       \* boolean
    messagesSentTimestamps,  \* number[]
    botPc,                   \* where the processing loop is suspended
    currentMessage,          \* id of the object held by sendSingleMessage
    wakeAt,                  \* when the pending sleep() timer fires
    now,                     \* Date.now()
    \* ---- what the sink and the callers may still do (environment)
    enqLeft, errLeft, rlLeft, ticksLeft,
    \* ---- history of the dispatcher (not read by the code)
    nextId,                  \* ids are given in enqueue order
    attempts,                \* id -> delivery attempts made
    errAttempts,             \* id -> attempts that failed with a non-429 error
    delivered,               \* ids in the order the sink accepted them
    sentAt,                  \* the times at which the sink accepted them
    dropped,                 \* ids reported as permanent failures, in order
    rlPending,               \* id whose latest attempt was answered 429, or 0
    chatIds,                 \* the chat ids the callers use (environment)
    activeLoops,             \* processMessageQueue invocations inside their loop
    \* ---- the chain, as the transaction source reports it (environment)
    head,                    \* latest block number
    chain,                   \* groups of internal transfers: [name, block, count, minValue]
    \* ---- TransactionMonitor (src/src/monitor.ts 454-713)
    lastBlockChecked,        \* contractStats[name].lastBlockChecked
    cyclePc,                 \* where monitorContracts is suspended
    currentBlock,            \* const currentBlock of the running cycle
    startBlock,              \* name -> the startblock its fetch was called with
    contractTransactions,    \* name -> [fetched, transactions, maxBlock]
    toProcess,               \* names still to be processed, in order
    results,                 \* results not yet sent, in order
    \* ---- history of the running (or last) cycle (not read by the code)
    failedAt,                \* name -> "none" | "fetch" | "process" | "send"
    vetoes,                  \* name -> blocks the reputation check vetoed
    handed,                  \* messages handed to the dispatcher, in order
    checkedBefore,           \* lastBlockChecked when the cycle was called
    \* ---- the parts of the monitor modelled on their own, each with its inputs
    reputation,              \* the reputation filter and its throttle (560-661, 746-768)
    overlap,                 \* poll cycles that overlap (483-495, 498-713)
    splitter,                \* splitMessage (715-744)
    external,                \* the send step of the external-transaction variant (84-239)
    classifier,              \* detectPattern / analyzePattern (800-905)
    dispatcher               \* sendMessage over texts, and the drain under any sink (bot.ts 75-121)

botVars == <<messageQueue, isProcessingQueue, messagesSentTimestamps, botPc,
             currentMessage, wakeAt, now, enqLeft, errLeft, rlLeft, ticksLeft,
             nextId, attempts, errAttempts, delivered, sentAt, dropped, rlPending,
             chatIds, activeLoops>>

monVars == <<head, chain, lastBlockChecked, cyclePc, currentBlock,
             startBlock, contractTransactions, toProcess, results, failedAt,
             vetoes, handed, checkedBefore>>

partVars == <<reputation, overlap, splitter, external, classifier,
             dispatcher>>

vars == <<botVars, monVars, partVars>>

-----------------------------------------------------------------------------
\* Program constants of the dispatcher.
MAX_RETRIES == 3
MAX_MESSAGES_PER_SECOND == 10
RATE_LIMIT_WAIT_TIME == 13000
WINDOW_MS == 1000
RATE_LIMIT_POLL_MS == 5000

\* Bounds of the model.
MaxMsgs == 3          \* messages the callers enqueue in the retry scenario
MaxBatch == 2         \* texts of one sendMessage call
MaxErrors == 4        \* non-429 errors the sink answers in the retry scenario
MaxRateLimited == 2   \* 429 answers of the sink
MaxTicks == 2         \* clock ticks besides the sleeps
BurstMsgs == 11       \* messages of the burst scenario
BurstErrors == 1      \* non-429 errors of the burst scenario
LiveMsgs == 2         \* messages of the scenario checked under fairness
LiveErrors == 4       \* its non-429 errors
LiveRateLimited == 1  \* its 429 answers
ChatMsgs == 3         \* messages of the scenario with two chat ids
ChatErrors == 1       \* its non-429 errors
ChatRateLimited == 1  \* its 429 answers

TickMs == WINDOW_MS \div 2

Outcomes == {"ok", "rateLimited", "error"}

-----------------------------------------------------------------------------
\* Sequence helpers (Array.prototype.filter / shift).
RECURSIVE SelectSeqBy(_, _)
SelectSeqBy(s, now0) ==
    IF s = <<>> THEN <<>>
    ELSE IF now0 - Head(s) < WINDOW_MS
         THEN <<Head(s)>> \o SelectSeqBy(Tail(s), now0)
         ELSE SelectSeqBy(Tail(s), now0)

\* canSendMessage: the timestamps kept, and the answer.
FilterTimestamps(ts, t) == SelectSeqBy(ts, t)

\* Variant: the comparison admits a send at the limit.
CanSendMessageAtLimit(ts, t) ==
    Len(FilterTimestamps(ts, t)) <= MAX_MESSAGES_PER_SECOND

CanSendMessage(ts, t) == Len(FilterTimestamps(ts, t)) < MAX_MESSAGES_PER_SECOND

\* Variant: the loop stops with one message left.
LoopContinuesButLast(q) == Len(q) > 1

\* while (this.messageQueue.length > 0) ... finally isProcessingQueue = false
LoopContinues(q) == Len(q) > 0

\* this.messageQueue.shift()
Shift(q) == Tail(q)

\* Variant: the loop takes the newest message.
HeadOfQueueNewest(q) == q[Len(q)]

\* const currentMessage = this.messageQueue[0]
HeadOfQueue(q) == q[1]

\* queuedMessage.retryCount++ on the object sendSingleMessage holds
IncrementRetry(q, id) ==
    [i \in 1..Len(q) |->
        IF q[i].id = id THEN [q[i] EXCEPT !.retryCount = @ + 1] ELSE q[i]]

RetryCountOf(q, id) ==
    LET is == {i \in 1..Len(q) : q[i].id = id}
    IN  IF is = {} THEN 0 ELSE q[CHOOSE i \in is : TRUE].retryCount

\* Variant: the comparison admits one more retry.
MayRetryAtLimit(retryCount) == retryCount <= MAX_RETRIES

\* The non-429 branch of the catch: retry while retryCount < MAX_RETRIES.
MayRetry(retryCount) == retryCount < MAX_RETRIES

\* What sendSingleMessage returns (shouldRemove) for an outcome.
ShouldRemove(outcome, retryCount) ==
    CASE outcome = "ok" -> TRUE
      [] outcome = "rateLimited" -> FALSE
      [] OTHER -> ~MayRetry(retryCount)

\* Variant: a 429 answer counts as a retry.
RetryAfterCountingRateLimit(outcome, retryCount) ==
    IF outcome \in {"error", "rateLimited"} /\ retryCount < MAX_RETRIES
    THEN retryCount + 1
    ELSE retryCount

\* The retryCount after an attempt with this outcome.
RetryAfter(outcome, retryCount) ==
    IF outcome = "error" /\ MayRetry(retryCount) THEN retryCount + 1
    ELSE retryCount

-----------------------------------------------------------------------------
InitBotWith(msgs, errs, rls, chats) ==
    /\ messageQueue = <<>>
    /\ isProcessingQueue = FALSE
    /\ messagesSentTimestamps = <<>>
    /\ botPc = "idle"
    /\ currentMessage = 0
    /\ wakeAt = 0
    /\ now = 0
    /\ enqLeft = msgs
    /\ errLeft = errs
    /\ rlLeft = rls
    /\ ticksLeft = MaxTicks
    /\ nextId = 1
    /\ attempts = <<>>
    /\ errAttempts = <<>>
    /\ delivered = <<>>
    /\ sentAt = <<>>
    /\ dropped = <<>>
    /\ rlPending = 0
    /\ chatIds = chats
    /\ activeLoops = 0

\* The dispatcher before its first enqueue.
BotIdle == InitBotWith(0, 0, 0, {"MAIN"})

\* Variant: sendMessage starts a loop whatever the flag says.
StartsLoopUnguarded(processing, q) == Len(q) > 0

\* sendMessage 118 and processMessageQueue 76: whether a processing loop starts.
StartsLoop(processing, q) == ~processing /\ ~(processing \/ Len(q) = 0)

\* Variant: the texts are put behind the head of the queue.
PushEachBehindHead(q, entries) ==
    IF q = <<>> THEN entries ELSE <<Head(q)>> \o entries \o Tail(q)

\* 105-113: this.messageQueue.push(...) for every text, in the order given.
PushEach(q, entries) == q \o entries

\* What calls of sendMessage made in one continuation do to the dispatcher:
\* chats holds the chat id of every text pushed, in order.  Every text is
\* pushed, and the first call starts the loop unless it is running; the
\* loop's first statements run in the same continuation.
Enqueue(chats) ==
    /\ Len(chats) <= enqLeft
    /\ enqLeft' = enqLeft - Len(chats)
    /\ messageQueue' = PushEach(messageQueue,
           [i \in 1..Len(chats) |-> [id |-> nextId + i - 1, chatId |-> chats[i],
                                     retryCount |-> 0]])
    /\ nextId' = nextId + Len(chats)
    /\ attempts' = attempts \o [i \in 1..Len(chats) |-> 0]
    /\ errAttempts' = errAttempts \o [i \in 1..Len(chats) |-> 0]
    /\ IF StartsLoop(isProcessingQueue, messageQueue')
       THEN /\ isProcessingQueue' = TRUE
            /\ activeLoops' = activeLoops + 1
            /\ botPc' = "wait"
       ELSE UNCHANGED <<isProcessingQueue, activeLoops, botPc>>
    /\ UNCHANGED <<messagesSentTimestamps, currentMessage, wakeAt, now,
                   errLeft, rlLeft, ticksLeft, delivered, sentAt, dropped,
                   rlPending, chatIds>>

\* sendMessage(messages, chatId) with n texts.
SendMessage(n, chatId) ==
    /\ Enqueue([i \in 1..n |-> chatId])
    /\ UNCHANGED <<monVars, partVars>>

\* waitForRateLimit: one evaluation of canSendMessage, then either the send
\* or sleep(5000).
WaitForRateLimit ==
    /\ botPc = "wait"
    /\ messagesSentTimestamps' = FilterTimestamps(messagesSentTimestamps, now)
    /\ IF CanSendMessage(messagesSentTimestamps, now)
       THEN /\ botPc' = "ready"
            /\ UNCHANGED wakeAt
       ELSE /\ botPc' = "sleep"
            /\ wakeAt' = now + RATE_LIMIT_POLL_MS
    /\ UNCHANGED <<messageQueue, isProcessingQueue, currentMessage, now,
                   enqLeft, errLeft, rlLeft, ticksLeft, nextId, attempts,
                   errAttempts, delivered, sentAt, dropped, rlPending,
                   chatIds, activeLoops>>
    /\ UNCHANGED <<monVars, partVars>>

\* The sleep() timer of waitForRateLimit or of the 429 branch fires.
SleepDone ==
    /\ botPc \in {"sleep", "cooldown"}
    /\ now' = wakeAt
    /\ botPc' = "wait"
    /\ UNCHANGED <<messageQueue, isProcessingQueue, messagesSentTimestamps,
                   currentMessage, wakeAt, enqLeft, errLeft, rlLeft, ticksLeft,
                   nextId, attempts, errAttempts, delivered, sentAt, dropped, rlPending,
                   chatIds, activeLoops>>
    /\ UNCHANGED <<monVars, partVars>>

\* processMessageQueue 84-85: take the head and hand it to the sink.
StartSend ==
    /\ botPc = "ready"
    /\ currentMessage' = HeadOfQueue(messageQueue).id
    /\ attempts' = [attempts EXCEPT ![HeadOfQueue(messageQueue).id] = @ + 1]
    /\ botPc' = "inflight"
    /\ UNCHANGED <<messageQueue, isProcessingQueue, messagesSentTimestamps,
                   wakeAt, now, enqLeft, errLeft, rlLeft, ticksLeft, nextId,
                   errAttempts, delivered, sentAt, dropped, rlPending,
                   chatIds, activeLoops>>
    /\ UNCHANGED <<monVars, partVars>>

\* sendSingleMessage 46-72 and processMessageQueue 87-95: the sink answers.
SendSingleMessage(outcome) ==
    /\ botPc = "inflight"
    /\ outcome = "error" => errLeft > 0
    /\ outcome = "rateLimited" => rlLeft > 0
    /\ errLeft' = IF outcome = "error" THEN errLeft - 1 ELSE errLeft
    /\ rlLeft' = IF outcome = "rateLimited" THEN rlLeft - 1 ELSE rlLeft
    /\ LET rc == RetryCountOf(messageQueue, currentMessage)
           remove == ShouldRemove(outcome, rc)
           q1 == IF RetryAfter(outcome, rc) # rc
                 THEN IncrementRetry(messageQueue, currentMessage)
                 ELSE messageQueue
           q2 == IF remove THEN Shift(q1) ELSE q1
       IN  /\ messageQueue' = q2
           /\ messagesSentTimestamps' =
                  IF outcome = "ok" THEN Append(messagesSentTimestamps, now)
                  ELSE messagesSentTimestamps
           /\ delivered' = IF outcome = "ok"
                           THEN Append(delivered, currentMessage) ELSE delivered
           /\ sentAt' = IF outcome = "ok" THEN Append(sentAt, now) ELSE sentAt
           /\ dropped' = IF outcome = "error" /\ remove
                         THEN Append(dropped, HeadOfQueue(q1).id) ELSE dropped
           /\ errAttempts' = IF outcome = "error"
                             THEN [errAttempts EXCEPT ![currentMessage] = @ + 1]
                             ELSE errAttempts
           /\ rlPending' = IF outcome = "rateLimited" THEN currentMessage ELSE 0
           /\ IF outcome = "rateLimited"
              THEN /\ botPc' = "cooldown"
                   /\ wakeAt' = now + RATE_LIMIT_WAIT_TIME
                   /\ UNCHANGED isProcessingQueue
              ELSE /\ UNCHANGED wakeAt
                   /\ IF LoopContinues(q2)
                      THEN /\ botPc' = "wait"
                           /\ UNCHANGED isProcessingQueue
                      ELSE /\ botPc' = "idle"
                           /\ isProcessingQueue' = FALSE
    /\ activeLoops' = IF botPc' = "idle" THEN activeLoops - 1 ELSE activeLoops
    /\ UNCHANGED <<currentMessage, now, enqLeft, ticksLeft, nextId, attempts,
                   chatIds>>
    /\ UNCHANGED <<monVars, partVars>>

\* Time passes while no sleep is pending (a pending sleep jumps to its end).
Tick ==
    /\ ticksLeft > 0
    /\ botPc \notin {"sleep", "cooldown"}
    /\ ticksLeft' = ticksLeft - 1
    /\ now' = now + TickMs
    /\ UNCHANGED <<messageQueue, isProcessingQueue, messagesSentTimestamps,
                   botPc, currentMessage, wakeAt, enqLeft, errLeft, rlLeft,
                   nextId, attempts, errAttempts, delivered, sentAt, dropped, rlPending,
                   chatIds, activeLoops>>
    /\ UNCHANGED <<monVars, partVars>>

-----------------------------------------------------------------------------
\* TransactionMonitor, internal-transfer variant.

\* Object.entries(this.config.ADDRESS), in its order.  The model watches the
\* first two of the three configured addresses; the code treats every entry
\* alike.
ADDRESS == <<"DISPERSE", "COINTOOL">>

Names == {ADDRESS[i] : i \in 1..Len(ADDRESS)}

blocksPerDay == 7200
INITIAL_DAYS_TO_MONITOR == 1
initialBlocksToFetch == INITIAL_DAYS_TO_MONITOR * blocksPerDay
minTransactions == 20
MIN_TRANSACTION_AMOUNT == 1

\* Bounds of the model.
StartHead == 7203     \* the chain head when the monitor starts
MaxNewBlocks == 1     \* blocks mined while the monitor runs
MaxGroups == 2        \* groups of transfers of the watched addresses on the chain
MaxFailures == 2      \* addresses whose step fails in one cycle

Blocks == StartHead..(StartHead + MaxNewBlocks)

\* The transfers of one address in one block, by what the code reads of them:
\* how many there are and their smallest value.
GroupKinds ==
    {[count |-> minTransactions, minValue |-> MIN_TRANSACTION_AMOUNT],
     [count |-> minTransactions - 1, minValue |-> MIN_TRANSACTION_AMOUNT],
     [count |-> minTransactions, minValue |-> MIN_TRANSACTION_AMOUNT - 1]}

Max(S) == CHOOSE x \in S : \A y \in S : y <= x

\* The names of a sequence of names that satisfy P, in order (Array.filter).
RECURSIVE FilterNames(_, _)
FilterNames(seq, keep) ==
    IF seq = <<>> THEN <<>>
    ELSE IF Head(seq) \in keep
         THEN <<Head(seq)>> \o FilterNames(Tail(seq), keep)
         ELSE FilterNames(Tail(seq), keep)

\* getInternalTransactions(address, startblock): the transfers from startblock on.
InternalTransactions(name, from) ==
    {g \in chain : g.name = name /\ g.block >= from}

\* maxBlock of a fetch: Math.max of the block numbers, or null ({}).
MaxBlockOf(transactions) ==
    IF transactions # {} THEN {Max({g.block : g \in transactions})} ELSE {}

\* The value a successful fetch returns.
FetchOk(name, from) ==
    LET txs == InternalTransactions(name, from)
    IN  [fetched |-> TRUE, transactions |-> txs, maxBlock |-> MaxBlockOf(txs)]

\* The value the catch of a failed fetch returns.
FetchCatch == [fetched |-> TRUE, transactions |-> {}, maxBlock |-> {}]

NotFetched == [fetched |-> FALSE, transactions |-> {}, maxBlock |-> {}]

\* A variant that forgets the + 1.
ResultMaxBlockNoIncrement(maxBlock, cur) ==
    IF maxBlock # {} /\ maxBlock # {0} THEN Max(maxBlock) ELSE cur

\* maxBlock ? maxBlock + 1 : currentBlock
ResultMaxBlock(maxBlock, cur) ==
    IF maxBlock # {} /\ maxBlock # {0} THEN Max(maxBlock) + 1 ELSE cur

\* Variant: the values of the transfers are not looked at.
EligibleByCount(g) == g.count >= minTransactions

\* The eligibility test of a block's transfers.
Eligible(g) ==
    g.count >= minTransactions /\ g.minValue >= MIN_TRANSACTION_AMOUNT

\* The blocks of a fetch in the order Object.entries(txsByBlock) gives them
\* (integer keys: ascending).
RECURSIVE BlocksAscending(_)
BlocksAscending(bs) ==
    IF bs = {} THEN <<>>
    ELSE LET m == CHOOSE x \in bs : \A y \in bs : x <= y
         IN  <<m>> \o BlocksAscending(bs \ {m})

\* Variant: a veto ends the loop over the blocks (break for continue).
MessagesForUntilVeto(chat, name, transactions, vetoed) ==
    LET el == {g.block : g \in {t \in transactions : Eligible(t)}}
        bs == {b \in el \ vetoed : \A v \in vetoed : b < v}
        ord == BlocksAscending(bs)
    IN  [i \in 1..Len(ord) |-> [chat |-> chat, name |-> name, block |-> ord[i]]]

\* messages / copyWalletMessages of one address: one of each per eligible
\* block that the reputation check did not veto.
MessagesFor(chat, name, transactions, vetoed) ==
    LET bs == {g.block : g \in {t \in transactions : Eligible(t)}} \ vetoed
        ord == BlocksAscending(bs)
    IN  [i \in 1..Len(ord) |-> [chat |-> chat, name |-> name, block |-> ord[i]]]

\* The result pushed after an address was processed.
ProcessOk(name, ct, cur, vetoed) ==
    [name |-> name,
     messages |-> MessagesFor("MAIN", name, ct.transactions, vetoed),
     copyWalletMessages |-> MessagesFor("COPY", name, ct.transactions, vetoed),
     maxBlock |-> ResultMaxBlock(ct.maxBlock, cur)]

\* Variant: the catch falls back to the chain head, as the try does.
ProcessCatchAtHead(name, lbc) ==
    [name |-> name, messages |-> <<>>, copyWalletMessages |-> <<>>,
     maxBlock |-> currentBlock]

\* The result pushed by the catch of the processing step.
ProcessCatch(name, lbc) ==
    [name |-> name, messages |-> <<>>, copyWalletMessages |-> <<>>,
     maxBlock |-> lbc[name]]

\* A variant whose try/catch encloses the whole loop.
RemainingAfterErrorAbort(q) == <<>>

\* The names the processing loop still visits after one of them threw.
RemainingAfterError(q) == Tail(q)

\* The results the send loop still visits after one of them threw.
ResultsAfterError(rs) == Tail(rs)

\* "Initialize start blocks if needed".
InitStartBlocks(lbc, cur) ==
    [n \in Names |-> IF lbc[n] = 0 THEN cur - initialBlocksToFetch ELSE lbc[n]]

\* A variant that leaves the checkpoint of such an address alone.
NoTransactionCheckpointKeep(old, cur) == old

\* The checkpoint written for an address whose fetch produced no transaction.
NoTransactionCheckpoint(old, cur) == cur

\* "Update contracts with no transactions".
UpdateNoTransactions(lbc, cts, cur) ==
    [n \in Names |->
        IF cts[n].transactions = {}
        THEN NoTransactionCheckpoint(lbc[n], cur) ELSE lbc[n]]

\* The checkpoint written after an address's messages were sent.
SentCheckpoint(r) == r.maxBlock

\* The groups a block may hold: transfers of at most one watched address.
GroupsAt(b) ==
    {{}} \cup {{[name |-> n, block |-> b, count |-> k.count, minValue |-> k.minValue]} :
                  n \in Names, k \in GroupKinds}

\* The parts modelled on their own, before they are given an input.
ReputationIdle == [pc |-> "off"]
OverlapIdle == [pc |-> "off"]
SplitterIdle == [pc |-> "off"]
ExternalIdle == [pc |-> "off"]
ClassifierIdle == [pc |-> "off"]
DispatcherIdle == [pc |-> "off"]

PartsIdle ==
    /\ reputation = ReputationIdle
    /\ overlap = OverlapIdle
    /\ splitter = SplitterIdle
    /\ external = ExternalIdle
    /\ classifier = ClassifierIdle
    /\ dispatcher = DispatcherIdle

MonitorIdle ==
    /\ head = StartHead
    /\ chain = {}
    /\ lastBlockChecked = [n \in Names |-> 0]
    /\ cyclePc = "idle"
    /\ currentBlock = 0
    /\ startBlock = [n \in Names |-> 0]
    /\ contractTransactions = [n \in Names |-> NotFetched]
    /\ toProcess = <<>>
    /\ results = <<>>
    /\ failedAt = [n \in Names |-> "none"]
    /\ vetoes = [n \in Names |-> {}]
    /\ handed = <<>>
    /\ checkedBefore = [n \in Names |-> 0]

\* The constructor: every checkpoint is 0.
InitMonitor ==
    /\ head = StartHead
    /\ chain \in {gs \in GroupsAt(StartHead) : Cardinality(gs) <= MaxGroups}
    /\ lastBlockChecked = [n \in Names |-> 0]
    /\ cyclePc = "idle"
    /\ currentBlock = 0
    /\ startBlock = [n \in Names |-> 0]
    /\ contractTransactions = [n \in Names |-> NotFetched]
    /\ toProcess = <<>>
    /\ results = <<>>
    /\ failedAt = [n \in Names |-> "none"]
    /\ vetoes = [n \in Names |-> {}]
    /\ handed = <<>>
    /\ checkedBefore = [n \in Names |-> 0]

\* Whether one more address may fail in the running cycle (the environment).
MayFail == Cardinality({n \in Names : failedAt[n] # "none"}) < MaxFailures

\* A block is mined; it may hold transfers of the watched addresses.
MineBlock(gs) ==
    /\ head < StartHead + MaxNewBlocks
    /\ Cardinality(chain) + Cardinality(gs) <= MaxGroups
    /\ head' = head + 1
    /\ chain' = chain \cup gs
    /\ UNCHANGED <<lastBlockChecked, cyclePc, currentBlock, startBlock,
                   contractTransactions, toProcess, results, failedAt, vetoes,
                   handed, checkedBefore>>
    /\ UNCHANGED <<botVars, partVars>>

\* getLatestBlock: the block number, or null (written 0: the caller tests
\* !currentBlock) when the request fails.
GetLatestBlock(headOk, h) == IF headOk THEN h ELSE 0

\* Variant: the cycle goes on whatever was read.
HeadWasReadAlways(cur) == TRUE

\* if (!currentBlock) return;
HeadWasRead(cur) == cur # 0

\* monitorContracts 499-544: read the chain head, initialise the checkpoints
\* and issue every fetch.  A failed head read ends the cycle.
BeginCycle(headOk) ==
    /\ cyclePc \in {"idle", "done"}
    /\ failedAt' = [n \in Names |-> "none"]
    /\ vetoes' = [n \in Names |-> {}]
    /\ handed' = <<>>
    /\ checkedBefore' = lastBlockChecked
    /\ contractTransactions' = [n \in Names |-> NotFetched]
    /\ toProcess' = <<>>
    /\ results' = <<>>
    /\ currentBlock' = GetLatestBlock(headOk, head)
    /\ IF HeadWasRead(currentBlock')
       THEN /\ lastBlockChecked' =
                  InitStartBlocks(lastBlockChecked, currentBlock')
            /\ startBlock' = InitStartBlocks(lastBlockChecked, currentBlock')
            /\ cyclePc' = "fetch"
       ELSE /\ cyclePc' = "done"
            /\ UNCHANGED <<lastBlockChecked, startBlock>>
    /\ UNCHANGED <<head, chain>>

StartCycle(headOk) ==
    /\ BeginCycle(headOk)
    /\ UNCHANGED <<botVars, partVars>>

\* The tail of the cycle once no result is left to send: the update of the
\* addresses without transactions.
EndOfCycle(lbc, cts) == UpdateNoTransactions(lbc, cts, currentBlock)

\* monitorContracts 516-560: the answer to one fetch.  After the last one
\* (Promise.all) the addresses with transactions are queued for processing.
Fetch(name, ok) ==
    /\ cyclePc = "fetch"
    /\ ~contractTransactions[name].fetched
    /\ ~ok => MayFail
    /\ failedAt' = IF ok THEN failedAt ELSE [failedAt EXCEPT ![name] = "fetch"]
    /\ LET cts == [contractTransactions EXCEPT
                      ![name] = IF ok THEN FetchOk(name, startBlock[name])
                                ELSE FetchCatch]
           all == \A n \in Names : cts[n].fetched
           todo == FilterNames(ADDRESS, {n \in Names : cts[n].transactions # {}})
       IN  /\ contractTransactions' = cts
           /\ IF ~all
              THEN UNCHANGED <<cyclePc, toProcess, lastBlockChecked>>
              ELSE IF todo # <<>>
              THEN /\ cyclePc' = "process"
                   /\ toProcess' = todo
                   /\ UNCHANGED lastBlockChecked
              ELSE /\ cyclePc' = "done"
                   /\ toProcess' = <<>>
                   /\ lastBlockChecked' = EndOfCycle(lastBlockChecked, cts)
    /\ UNCHANGED <<head, chain, currentBlock, startBlock, results, vetoes,
                   handed, checkedBefore>>
    /\ UNCHANGED <<botVars, partVars>>

\* monitorContracts 561-677: one address is processed; vetoed are the blocks
\* checkOldTransactions answered true for.
Process(ok, vetoed) ==
    /\ cyclePc = "process"
    /\ toProcess # <<>>
    /\ ~ok => MayFail
    /\ LET name == Head(toProcess)
           ct == contractTransactions[name]
           rest == IF ok THEN Tail(toProcess) ELSE RemainingAfterError(toProcess)
       IN  /\ vetoed \subseteq {g.block : g \in {t \in ct.transactions : Eligible(t)}}
           /\ ~ok => vetoed = {}
           /\ results' = Append(results,
                  IF ok THEN ProcessOk(name, ct, currentBlock, vetoed)
                  ELSE ProcessCatch(name, lastBlockChecked))
           /\ failedAt' = IF ok THEN failedAt
                          ELSE [failedAt EXCEPT ![name] = "process"]
           /\ vetoes' = [vetoes EXCEPT ![name] = vetoed]
           /\ toProcess' = rest
           /\ cyclePc' = IF rest = <<>> THEN "send" ELSE "process"
    /\ UNCHANGED <<head, chain, lastBlockChecked, currentBlock, startBlock,
                   contractTransactions, handed, checkedBefore>>
    /\ UNCHANGED <<botVars, partVars>>

\* monitorContracts 681-709: the messages of one result are handed to the
\* dispatcher and its checkpoint is written; thrown is "none", or the
\* sendMessage call that threw.  After the last result the cycle ends.
Send(thrown) ==
    /\ cyclePc = "send"
    /\ results # <<>>
    /\ thrown # "none" => MayFail
    /\ LET r == Head(results)
           rest == IF thrown = "none" THEN Tail(results)
                   ELSE ResultsAfterError(results)
           lbc == IF thrown = "none"
                  THEN [lastBlockChecked EXCEPT ![r.name] = SentCheckpoint(r)]
                  ELSE lastBlockChecked
       IN  /\ thrown = "main" => r.messages # <<>>
           /\ thrown = "copy" => r.copyWalletMessages # <<>>
           /\ handed' = CASE thrown = "main" -> handed
                          [] thrown = "copy" -> handed \o r.messages
                          [] OTHER -> handed \o r.messages \o r.copyWalletMessages
           /\ failedAt' = IF thrown = "none" THEN failedAt
                          ELSE [failedAt EXCEPT ![r.name] = "send"]
           /\ results' = rest
           /\ IF rest = <<>>
              THEN /\ cyclePc' = "done"
                   /\ lastBlockChecked' = EndOfCycle(lbc, contractTransactions)
              ELSE /\ cyclePc' = "send"
                   /\ lastBlockChecked' = lbc
    /\ UNCHANGED <<head, chain, currentBlock, startBlock, contractTransactions,
                   toProcess, vetoes, checkedBefore>>
    /\ UNCHANGED <<botVars, partVars>>

Next ==
    \/ \E gs \in GroupsAt(head + 1) : MineBlock(gs)
    \/ \E ok \in BOOLEAN : StartCycle(ok)
    \/ \E n \in Names, ok \in BOOLEAN : Fetch(n, ok)
    \/ \E ok \in BOOLEAN, v \in SUBSET {g.block : g \in chain} : Process(ok, v)
    \/ \E t \in {"none", "main", "copy"} : Send(t)

Init == InitMonitor /\ BotIdle /\ PartsIdle

Spec == Init /\ [][Next]_vars

NextBot ==
    \/ \E n \in 1..MaxBatch, c \in chatIds : SendMessage(n, c)
    \/ WaitForRateLimit
    \/ SleepDone
    \/ StartSend
    \/ \E o \in Outcomes : SendSingleMessage(o)
    \/ Tick

InitBot ==
    InitBotWith(MaxMsgs, MaxErrors, MaxRateLimited, {"MAIN"}) /\ MonitorIdle /\ PartsIdle

InitBurst ==
    InitBotWith(BurstMsgs, BurstErrors, 0, {"MAIN"}) /\ MonitorIdle /\ PartsIdle

SpecBot == InitBot /\ [][NextBot]_vars

SpecBurst == InitBurst /\ [][NextBot]_vars

\* The callers send to the main chat and to the copy-wallet chat
\* (monitor.ts 684, 688-691).
InitChats ==
    InitBotWith(ChatMsgs, ChatErrors, ChatRateLimited, {"MAIN", "COPY"})
    /\ MonitorIdle /\ PartsIdle

SpecChats == InitChats /\ [][NextBot]_vars

\* The event loop runs every continuation that is ready, every timer fires and
\* the sink answers every call.
InitLive ==
    InitBotWith(LiveMsgs, LiveErrors, LiveRateLimited, {"MAIN"})
    /\ MonitorIdle /\ PartsIdle

FairSpecBot ==
    /\ InitLive
    /\ [][NextBot]_vars
    /\ WF_vars(WaitForRateLimit)
    /\ WF_vars(SleepDone)
    /\ WF_vars(StartSend)
    /\ WF_vars(\E o \in Outcomes : SendSingleMessage(o))

-----------------------------------------------------------------------------
\* Poll cycles that overlap (monitor.ts 483-495): setInterval calls
\* monitorContracts whether or not the call before it has returned.  Every
\* running call has its own locals; contractStats is shared.  The steps are
\* the continuations that read or write contractStats; nothing fails here.

\* Bounds of this part.
MaxRunning == 2       \* calls of monitorContracts that run at the same time
MaxCycles == 3        \* calls of monitorContracts in all

Slots == 1..MaxRunning

CycleIdle ==
    [pc |-> "idle", seq |-> 0, currentBlock |-> 0,
     startBlock |-> [n \in Names |-> 0],
     contractTransactions |-> [n \in Names |-> NotFetched],
     results |-> <<>>]

OverlapStart ==
    [pc |-> "on", started |-> 0,
     cycles |-> [c \in Slots |-> CycleIdle],
     writtenBy |-> [n \in Names |-> 0]]

\* The writer recorded for the checkpoints a step changed.
WrittenBy(old, lbc, lbc1, seq) ==
    [n \in Names |-> IF lbc1[n] # lbc[n] THEN seq ELSE old[n]]

\* The results of the processing step of a cycle in which nothing fails or is
\* vetoed, in the order of the addresses.
RECURSIVE ResultsOf(_, _, _)
ResultsOf(names, cts, cur) ==
    IF names = <<>> THEN <<>>
    ELSE <<ProcessOk(Head(names), cts[Head(names)], cur, {})>>
         \o ResultsOf(Tail(names), cts, cur)

\* monitorContracts 499-521 of one call: the chain head is read, the
\* checkpoints are initialised and every fetch is issued.
CycleStart(c) ==
    /\ overlap.pc = "on"
    /\ overlap.cycles[c].pc \in {"idle", "done"}
    /\ overlap.started < MaxCycles
    /\ LET seq == overlap.started + 1
           lbc == InitStartBlocks(lastBlockChecked, head)
       IN  /\ lastBlockChecked' = lbc
           /\ overlap' =
                 [overlap EXCEPT
                    !.started = seq,
                    !.writtenBy = WrittenBy(@, lastBlockChecked, lbc, seq),
                    !.cycles[c] =
                        [pc |-> "fetch", seq |-> seq, currentBlock |-> head,
                         startBlock |-> lbc,
                         contractTransactions |-> [n \in Names |-> NotFetched],
                         results |-> <<>>]]
    /\ UNCHANGED <<head, chain, cyclePc, currentBlock, startBlock,
                   contractTransactions, toProcess, results, failedAt, vetoes,
                   handed, checkedBefore>>
    /\ UNCHANGED <<botVars, reputation, splitter, external, classifier,
                   dispatcher>>

\* monitorContracts 547-678 of one call: the fetches are answered and the
\* results are prepared.  Without a result the no-transaction update follows
\* in the same continuation.
CycleFetched(c) ==
    /\ overlap.pc = "on"
    /\ overlap.cycles[c].pc = "fetch"
    /\ LET cy == overlap.cycles[c]
           cts == [n \in Names |-> FetchOk(n, cy.startBlock[n])]
           todo == FilterNames(ADDRESS, {n \in Names : cts[n].transactions # {}})
           rs == ResultsOf(todo, cts, cy.currentBlock)
           lbc == IF rs = <<>>
                  THEN UpdateNoTransactions(lastBlockChecked, cts, cy.currentBlock)
                  ELSE lastBlockChecked
       IN  /\ lastBlockChecked' = lbc
           /\ overlap' =
                 [overlap EXCEPT
                    !.writtenBy = WrittenBy(@, lastBlockChecked, lbc, cy.seq),
                    !.cycles[c] =
                        [cy EXCEPT !.pc = IF rs = <<>> THEN "done" ELSE "send",
                                   !.contractTransactions = cts,
                                   !.results = rs]]
    /\ UNCHANGED <<head, chain, cyclePc, currentBlock, startBlock,
                   contractTransactions, toProcess, results, failedAt, vetoes,
                   handed, checkedBefore>>
    /\ UNCHANGED <<botVars, reputation, splitter, external, classifier,
                   dispatcher>>

\* monitorContracts 681-709 of one call: the dispatcher has taken the
\* messages of one result and its checkpoint is written; after the last
\* result the no-transaction update follows.
CycleSend(c) ==
    /\ overlap.pc = "on"
    /\ overlap.cycles[c].pc = "send"
    /\ LET cy == overlap.cycles[c]
           r == Head(cy.results)
           rest == Tail(cy.results)
           lbc1 == [lastBlockChecked EXCEPT ![r.name] = SentCheckpoint(r)]
           lbc == IF rest = <<>>
                  THEN UpdateNoTransactions(lbc1, cy.contractTransactions,
                                            cy.currentBlock)
                  ELSE lbc1
       IN  /\ lastBlockChecked' = lbc
           /\ overlap' =
                 [overlap EXCEPT
                    !.writtenBy = [n \in Names |->
                        IF n = r.name \/ lbc[n] # lbc1[n] THEN cy.seq ELSE @[n]],
                    !.cycles[c] =
                        [cy EXCEPT !.pc = IF rest = <<>> THEN "done" ELSE "send",
                                   !.results = rest]]
    /\ UNCHANGED <<head, chain, cyclePc, currentBlock, startBlock,
                   contractTransactions, toProcess, results, failedAt, vetoes,
                   handed, checkedBefore>>
    /\ UNCHANGED <<botVars, reputation, splitter, external, classifier,
                   dispatcher>>

NextOverlap ==
    \/ \E gs \in GroupsAt(head + 1) : MineBlock(gs)
    \/ \E c \in Slots : CycleStart(c)
    \/ \E c \in Slots : CycleFetched(c)
    \/ \E c \in Slots : CycleSend(c)

InitOverlap ==
    /\ BotIdle /\ InitMonitor
    /\ overlap = OverlapStart
    /\ reputation = ReputationIdle /\ splitter = SplitterIdle
    /\ external = ExternalIdle /\ classifier = ClassifierIdle
    /\ dispatcher = DispatcherIdle

SpecOverlap == InitOverlap /\ [][NextOverlap]_vars

-----------------------------------------------------------------------------
\* splitMessage (monitor.ts 715-744) on the messages createMessage renders
\* (770-798).  A string is a sequence of characters; a character is a number:
\* NL is "\n", STAR stands for the text "*Transaction: *", HDR is a character
\* of the header, and i > 0 is a character of the i-th itemized line.

NL == 0
STAR == 0 - 1
HDR == 0 - 2

\* Bounds of this part.
MaxLines == 3         \* itemized lines of a message
MaxLineLen == 2       \* characters of a line
MinMaxLength == 7     \* the smallest maxLength splitMessage is called with
MaxMaxLength == 11    \* the largest

\* "\n\n*Transaction: *\n"
SEPARATOR == <<NL, NL, STAR, NL>>

\* String.prototype.indexOf: the first position of p in str, or 0.
IndexOf(str, p) ==
    LET at == {i \in 1..(Len(str) - Len(p) + 1) :
                  SubSeq(str, i, i + Len(p) - 1) = p}
    IN  IF at = {} THEN 0 ELSE CHOOSE i \in at : \A j \in at : i <= j

\* String.prototype.split with a non-empty separator.
RECURSIVE StrSplit(_, _)
StrSplit(str, p) ==
    LET i == IndexOf(str, p)
    IN  IF i = 0 THEN <<str>>
        ELSE <<SubSeq(str, 1, i - 1)>>
             \o StrSplit(SubSeq(str, i + Len(p), Len(str)), p)

\* String.prototype.trim (the only white space of these strings is "\n").
RECURSIVE Trim(_)
Trim(str) ==
    IF str = <<>> THEN <<>>
    ELSE IF Head(str) = NL THEN Trim(Tail(str))
    ELSE IF str[Len(str)] = NL THEN Trim(SubSeq(str, 1, Len(str) - 1))
    ELSE str

\* Array.prototype.join("\n")
RECURSIVE JoinNL(_)
JoinNL(strs) ==
    IF strs = <<>> THEN <<>>
    ELSE IF Len(strs) = 1 THEN strs[1]
    ELSE strs[1] \o <<NL>> \o JoinNL(Tail(strs))

\* The i-th itemized line, of the given length.
ItemLine(i, len) == [k \in 1..len |-> i]

\* A header as createMessage renders it: several lines of text.
Header == <<HDR, NL, HDR>>

\* createMessage: the header, the separator, the itemized lines joined by "\n".
CreateMessage(lens) ==
    Header \o SEPARATOR \o JoinNL([i \in 1..Len(lens) |-> ItemLine(i, lens[i])])

\* Variant: the line that does not fit is dropped.
StartNewMessageEmpty(tx) == <<>>

\* currentMsg = tx + "\n" (733)
StartNewMessage(tx) == tx \o <<NL>>

\* Variant: only the line is measured.
ExceedsByLine(currentMsg, tx, maxLength) == Len(tx \o <<NL>>) > maxLength

\* (currentMsg + tx + "\n").length > maxLength (730)
Exceeds(currentMsg, tx, maxLength) == Len(currentMsg \o tx \o <<NL>>) > maxLength

LineLengths ==
    UNION {[1..n -> 1..MaxLineLen] : n \in 1..MaxLines}

\* splitMessage is about to be called.
SplitterCalls ==
    {[pc |-> "call", lens |-> lens, msg |-> CreateMessage(lens),
      maxLength |-> m, transactions |-> <<>>, currentMsg |-> <<>>,
      messages |-> <<>>] :
        lens \in LineLengths, m \in MinMaxLength..MaxMaxLength}

\* 716-726: the early return, or the header and the lines are taken apart.
SplitEnter ==
    /\ splitter.pc = "call"
    /\ splitter' =
          IF Len(splitter.msg) <= splitter.maxLength
          THEN [splitter EXCEPT !.pc = "done", !.messages = <<splitter.msg>>]
          ELSE LET parts == StrSplit(splitter.msg, SEPARATOR)
                   header == parts[1]
                   txLines == Tail(parts)
               IN  [splitter EXCEPT
                       !.pc = "loop",
                       !.currentMsg = header \o SEPARATOR,
                       !.transactions = StrSplit(txLines[1], <<NL>>)]
    /\ UNCHANGED <<botVars, monVars, reputation, overlap, external, classifier,
                   dispatcher>>

\* 728-737: one iteration of the loop over the lines.
SplitLine ==
    /\ splitter.pc = "loop"
    /\ splitter.transactions # <<>>
    /\ LET tx == Head(splitter.transactions)
       IN  splitter' =
              IF Exceeds(splitter.currentMsg, tx, splitter.maxLength)
              THEN [splitter EXCEPT
                       !.messages = Append(@, Trim(splitter.currentMsg)),
                       !.currentMsg = StartNewMessage(tx),
                       !.transactions = Tail(@)]
              ELSE [splitter EXCEPT
                       !.currentMsg = @ \o tx \o <<NL>>,
                       !.transactions = Tail(@)]
    /\ UNCHANGED <<botVars, monVars, reputation, overlap, external, classifier,
                   dispatcher>>

\* 739-743: the last chunk.
SplitReturn ==
    /\ splitter.pc = "loop"
    /\ splitter.transactions = <<>>
    /\ splitter' =
          [splitter EXCEPT
              !.pc = "done",
              !.messages = IF Len(Trim(splitter.currentMsg)) > 0
                           THEN Append(@, Trim(splitter.currentMsg)) ELSE @]
    /\ UNCHANGED <<botVars, monVars, reputation, overlap, external, classifier,
                   dispatcher>>

NextSplitter == SplitEnter \/ SplitLine \/ SplitReturn

InitSplitter ==
    /\ BotIdle /\ MonitorIdle
    /\ splitter \in SplitterCalls
    /\ reputation = ReputationIdle /\ overlap = OverlapIdle
    /\ external = ExternalIdle /\ classifier = ClassifierIdle
    /\ dispatcher = DispatcherIdle

SpecSplitter == InitSplitter /\ [][NextSplitter]_vars

-----------------------------------------------------------------------------
\* One address in one cycle of the external-transaction variant
\* (monitor.ts 84-239): the fetched transactions are limited, one message is
\* rendered per block, and the messages are handed to the dispatcher.

NOTICE_THRESHOLD == 5

\* parseInt of an unset LIMIT_TRANSACTIONS
NAN == 0 - 1

\* Bounds of this part.
MaxExtBlocks == 6     \* blocks the fetched transactions lie in
MaxPerBlock == 2      \* transactions of the address in one block
MaxLimit == 6         \* the largest LIMIT_TRANSACTIONS

\* process.env.LIMIT_TRANSACTIONS, parsed.
Limits == {NAN} \cup (NOTICE_THRESHOLD..MaxLimit)

\* The block numbers of the transactions a fetch returns (sort: "asc"), from
\* the number of transactions in each block.
RECURSIVE Expand(_, _)
Expand(perBlock, b) ==
    IF b > MaxExtBlocks THEN <<>>
    ELSE [i \in 1..perBlock[b] |-> b] \o Expand(perBlock, b + 1)

\* Variant: the first limit transactions are kept.
LimitTransactionsOldest(transactions, limit) ==
    IF limit # NAN /\ Len(transactions) > limit
    THEN SubSeq(transactions, 1, limit)
    ELSE transactions

\* transactions.length > limit ? transactions.slice(-limit) : transactions
\* (limit is NaN or a positive number)
LimitTransactions(transactions, limit) ==
    IF limit # NAN /\ Len(transactions) > limit
    THEN SubSeq(transactions, Len(transactions) - limit + 1, Len(transactions))
    ELSE transactions

\* One alert per key of txsByBlock, in the order of Object.entries.
AlertsPerBlock(transactions) ==
    LET ord == BlocksAscending({transactions[i] : i \in 1..Len(transactions)})
    IN  [i \in 1..Len(ord) |-> [kind |-> "alert", block |-> ord[i]]]

\* if (messages.length > 5) messages.unshift(notice)
WithNotice(messages) ==
    IF Len(messages) > NOTICE_THRESHOLD
    THEN <<[kind |-> "notice", block |-> Len(messages)]>> \o messages
    ELSE messages

\* maxBlock of a fetch: Math.max over the transactions returned, or null ({}).
ExternalMaxBlock(transactions) ==
    IF Len(transactions) > 0
    THEN {Max({transactions[i] : i \in 1..Len(transactions)})}
    ELSE {}

\* The chain head the cycle read (70-73); the transactions lie below it.
ExternalHead == MaxExtBlocks + 1

\* The address was last checked at block 1, and the result of its step
\* (maxBlock) is not yet computed.
ExternalCalls ==
    {[pc |-> "fetch", limit |-> l, fetched |-> Expand(pb, 1),
      transactions |-> <<>>, messages |-> <<>>, handed |-> <<>>,
      maxBlock |-> {}, lastBlockChecked |-> 1] :
        l \in Limits, pb \in [1..MaxExtBlocks -> 0..MaxPerBlock]}

\* 88-111: the fetch returns and the transactions are limited.
ExternalFetched ==
    /\ external.pc = "fetch"
    /\ external' =
          [external EXCEPT
              !.pc = "process",
              !.transactions = LimitTransactions(external.fetched, external.limit),
              !.maxBlock = ExternalMaxBlock(external.fetched)]
    /\ UNCHANGED <<botVars, monVars, reputation, overlap, splitter, classifier,
                   dispatcher>>

\* 128-201: the messages of the address are rendered.  An address without
\* transactions is filtered out (129); its checkpoint is written at 242-247.
ExternalProcessed ==
    /\ external.pc = "process"
    /\ external' =
          IF external.transactions = <<>>
          THEN [external EXCEPT !.pc = "sent",
                                !.lastBlockChecked = ExternalHead]
          ELSE [external EXCEPT
                   !.pc = "send",
                   !.messages = AlertsPerBlock(external.transactions)]
    /\ UNCHANGED <<botVars, monVars, reputation, overlap, splitter, classifier,
                   dispatcher>>

\* 187, 209-236: the messages are handed to the dispatcher and the
\* checkpoint is written.
ExternalSend ==
    /\ external.pc = "send"
    /\ external' =
          [external EXCEPT
              !.pc = "sent",
              !.lastBlockChecked =
                  ResultMaxBlock(external.maxBlock, ExternalHead),
              !.handed = IF Len(external.messages) > 0
                         THEN WithNotice(external.messages) ELSE <<>>]
    /\ UNCHANGED <<botVars, monVars, reputation, overlap, splitter, classifier,
                   dispatcher>>

NextExternal == ExternalFetched \/ ExternalProcessed \/ ExternalSend

InitExternal ==
    /\ BotIdle /\ MonitorIdle
    /\ external \in ExternalCalls
    /\ reputation = ReputationIdle /\ overlap = OverlapIdle
    /\ splitter = SplitterIdle /\ classifier = ClassifierIdle
    /\ dispatcher = DispatcherIdle

SpecExternal == InitExternal /\ [][NextExternal]_vars

-----------------------------------------------------------------------------
\* The send step of the external-transaction variant together with the
\* dispatcher (monitor.ts 206-239, bot.ts 98-121): results.map calls
\* sendMessage for the messages of every result in one continuation, and the
\* checkpoint of a result is written once the calls made for it have returned.
\* A call that finds the loop running returns at once (bot.ts 118); the call
\* that starts the loop returns when the loop ends.

\* Bounds of this part.
MaxMain == 1             \* alerts of one address
MaxCopy == 1             \* side-channel messages of one address
DeliveryErrors == 1      \* non-429 errors of the sink
DeliveryRateLimited == 1 \* its 429 answers

\* The results of the processing step: one for every address.
DeliveryResults ==
    {[i \in 1..Len(ADDRESS) |->
         [name |-> ADDRESS[i], messages |-> m[i], copyWalletMessages |-> c[i],
          maxBlock |-> StartHead + 1]] :
        m \in [1..Len(ADDRESS) -> 1..MaxMain],
        c \in [1..Len(ADDRESS) -> 0..MaxCopy]}

\* The chat ids of the texts pushed for the results, in the order of the calls.
RECURSIVE ChatsOf(_)
ChatsOf(rs) ==
    IF rs = <<>> THEN <<>>
    ELSE [i \in 1..Head(rs).messages |-> "MAIN"]
         \o [i \in 1..Head(rs).copyWalletMessages |-> "COPY"]
         \o ChatsOf(Tail(rs))

\* The ids the texts of each result get, the first one being first.
RECURSIVE IdsOf(_, _)
IdsOf(rs, first) ==
    IF rs = <<>> THEN [n \in {} |-> {}]
    ELSE LET k == Head(rs).messages + Head(rs).copyWalletMessages
         IN  (Head(rs).name :> (first..(first + k - 1)))
                 @@ IdsOf(Tail(rs), first + k)

DeliveryCalls ==
    {[pc |-> "results", results |-> rs, ids |-> [n \in Names |-> {}],
      awaiting |-> {}, starter |-> "none"] : rs \in DeliveryResults}

\* 207-233: every sendMessage call of the send step is made.
SendAll ==
    /\ external.pc = "results"
    /\ Enqueue(ChatsOf(external.results))
    /\ external' =
          [external EXCEPT
              !.pc = "awaiting",
              !.ids = IdsOf(external.results, nextId),
              !.awaiting = Names,
              !.starter = IF StartsLoop(isProcessingQueue, messageQueue')
                          THEN external.results[1].name ELSE "none"]
    /\ UNCHANGED <<monVars, reputation, overlap, splitter, classifier,
                   dispatcher>>

\* Whether the sendMessage calls made for a result have all returned.
CallsReturned(name) == name # external.starter \/ ~isProcessingQueue

\* 233-236: await Promise.all(sendPromises) of a result is over and its
\* checkpoint is written.
CheckpointWritten(name) ==
    /\ external.pc = "awaiting"
    /\ name \in external.awaiting
    /\ CallsReturned(name)
    /\ LET r == CHOOSE x \in {external.results[i] : i \in 1..Len(external.results)} : x.name = name
       IN  lastBlockChecked' = [lastBlockChecked EXCEPT ![name] = r.maxBlock]
    /\ external' = [external EXCEPT !.awaiting = @ \ {name}]
    /\ UNCHANGED <<head, chain, cyclePc, currentBlock, startBlock,
                   contractTransactions, toProcess, results, failedAt, vetoes,
                   handed, checkedBefore>>
    /\ UNCHANGED <<botVars, reputation, overlap, splitter, classifier,
                   dispatcher>>

NextDelivery ==
    \/ SendAll
    \/ \E n \in Names : CheckpointWritten(n)
    \/ WaitForRateLimit
    \/ SleepDone
    \/ StartSend
    \/ \E o \in Outcomes : SendSingleMessage(o)
    \/ Tick

InitDelivery ==
    /\ InitBotWith(Len(ADDRESS) * (MaxMain + MaxCopy), DeliveryErrors,
                   DeliveryRateLimited, {"MAIN", "COPY"})
    /\ MonitorIdle
    /\ external \in DeliveryCalls
    /\ reputation = ReputationIdle /\ overlap = OverlapIdle
    /\ splitter = SplitterIdle /\ classifier = ClassifierIdle
    /\ dispatcher = DispatcherIdle

SpecDelivery == InitDelivery /\ [][NextDelivery]_vars

-----------------------------------------------------------------------------
\* The drain of the dispatcher under any sink (bot.ts 25-121), without a
\* clock and without a budget for the sink's answers: the queue holds the
\* retryCount of every message, and recent is the number of timestamps that
\* canSendMessage would keep.  A timestamp expires after 1 s, so none of those
\* pushed before a sleep of 5 s or 13 s is left after it.

\* Bounds of this part.
DrainMsgs == 11       \* messages enqueued in all
DrainBatch == 11      \* texts of one sendMessage call

DrainStart ==
    [pc |-> "idle", queue |-> <<>>, isProcessingQueue |-> FALSE,
     recent |-> 0, toEnqueue |-> DrainMsgs]

\* sendMessage with n texts: the push, and the start of the loop.
DrainEnqueue(n) ==
    /\ dispatcher.pc # "off"
    /\ n <= dispatcher.toEnqueue
    /\ LET q == dispatcher.queue \o [i \in 1..n |-> 0]
           starts == StartsLoop(dispatcher.isProcessingQueue, q)
       IN  dispatcher' =
               [dispatcher EXCEPT
                   !.queue = q,
                   !.toEnqueue = @ - n,
                   !.isProcessingQueue = IF starts THEN TRUE ELSE @,
                   !.pc = IF starts THEN "wait" ELSE @]
    /\ UNCHANGED <<botVars, monVars, reputation, overlap, splitter, external,
                   classifier>>

\* Time passes: the oldest timestamps leave the window.
DrainExpire(k) ==
    /\ dispatcher.pc \in {"idle", "wait", "ready", "inflight"}
    /\ k < dispatcher.recent
    /\ dispatcher' = [dispatcher EXCEPT !.recent = k]
    /\ UNCHANGED <<botVars, monVars, reputation, overlap, splitter, external,
                   classifier>>

\* waitForRateLimit: one evaluation of canSendMessage.
DrainWait ==
    /\ dispatcher.pc = "wait"
    /\ dispatcher' =
           [dispatcher EXCEPT
               !.pc = IF dispatcher.recent < MAX_MESSAGES_PER_SECOND
                      THEN "ready" ELSE "sleep"]
    /\ UNCHANGED <<botVars, monVars, reputation, overlap, splitter, external,
                   classifier>>

\* The sleep() timer of waitForRateLimit or of the 429 branch fires.
DrainSleepDone ==
    /\ dispatcher.pc \in {"sleep", "cooldown"}
    /\ dispatcher' = [dispatcher EXCEPT !.pc = "wait", !.recent = 0]
    /\ UNCHANGED <<botVars, monVars, reputation, overlap, splitter, external,
                   classifier>>

\* processMessageQueue 84-85: the head is handed to the sink.
DrainStartSend ==
    /\ dispatcher.pc = "ready"
    /\ dispatcher' = [dispatcher EXCEPT !.pc = "inflight"]
    /\ UNCHANGED <<botVars, monVars, reputation, overlap, splitter, external,
                   classifier>>

\* sendSingleMessage 46-72 and processMessageQueue 87-95: the sink answers,
\* with any outcome.
DrainAnswer(outcome) ==
    /\ dispatcher.pc = "inflight"
    /\ LET rc == HeadOfQueue(dispatcher.queue)
           q1 == [dispatcher.queue EXCEPT ![1] = RetryAfter(outcome, rc)]
           q2 == IF ShouldRemove(outcome, rc) THEN Shift(q1) ELSE q1
       IN  dispatcher' =
               [dispatcher EXCEPT
                   !.queue = q2,
                   !.recent = IF outcome = "ok" THEN @ + 1 ELSE @,
                   !.pc = IF outcome = "rateLimited" THEN "cooldown"
                          ELSE IF LoopContinues(q2) THEN "wait" ELSE "idle",
                   !.isProcessingQueue =
                       IF outcome # "rateLimited" /\ ~LoopContinues(q2)
                       THEN FALSE ELSE @]
    /\ UNCHANGED <<botVars, monVars, reputation, overlap, splitter, external,
                   classifier>>

NextDrain ==
    \/ \E n \in 1..DrainBatch : DrainEnqueue(n)
    \/ \E k \in 0..MAX_MESSAGES_PER_SECOND : DrainExpire(k)
    \/ DrainWait
    \/ DrainSleepDone
    \/ DrainStartSend
    \/ \E o \in Outcomes : DrainAnswer(o)

InitDrain ==
    /\ BotIdle /\ MonitorIdle
    /\ dispatcher = DrainStart
    /\ reputation = ReputationIdle /\ overlap = OverlapIdle
    /\ splitter = SplitterIdle /\ external = ExternalIdle
    /\ classifier = ClassifierIdle

\* The event loop runs every continuation that is ready, every timer fires and
\* the sink answers every call.
FairSpecDrain ==
    /\ InitDrain
    /\ [][NextDrain]_vars
    /\ WF_vars(DrainWait)
    /\ WF_vars(DrainSleepDone)
    /\ WF_vars(DrainStartSend)
    /\ WF_vars(\E o \in Outcomes : DrainAnswer(o))

-----------------------------------------------------------------------------
\* The reputation filter inside the processing loop (monitor.ts 593-661,
\* 746-768): the groups of one cycle, taken one after the other over all
\* addresses (noOfCalls is declared outside both loops, 549).

MAX_CALLS == 10
MAX_WALLETS == 2

\* Bounds of this part.
MaxRepGroups == 11    \* groups of one cycle
MaxTransfers == 2     \* transfers one lookup reports at most

\* What alchemy.core.getAssetTransfers answers: the number of transfers it
\* reports, or -1 when it throws.
Answers == (-1)..MaxTransfers

Throws(answer) == answer < 0

\* Variant: one transfer is enough.
HasOldTransfersFromOne(answer) == answer >= 1

\* transactions.transfers.length > 1
HasOldTransfers(answer) == answer > 1

\* checkOldTransactions as a function of the answers its lookups would get.
RECURSIVE CheckOldTransactions(_)
CheckOldTransactions(answers) ==
    IF answers = <<>> THEN FALSE
    ELSE IF Throws(Head(answers)) THEN FALSE
    ELSE IF HasOldTransfers(Head(answers)) THEN TRUE
    ELSE CheckOldTransactions(Tail(answers))

\* if (noOfCalls >= 10)
MustPause(noOfCalls) == noOfCalls >= MAX_CALLS

ReputationStart ==
    [pc |-> "next", groupsLeft |-> MaxRepGroups, noOfCalls |-> 0,
     lookupsSincePause |-> 0, wallets |-> 0, answers |-> <<>>,
     returned |-> <<>>, alerted |-> <<>>, group |-> <<>>]

\* 602-614: the group passed the test; its candidates are sampled and the
\* throttle either pauses or lets checkOldTransactions be called.
BeginGroup(g, w) ==
    /\ reputation.pc = "next"
    /\ reputation.groupsLeft > 0
    /\ reputation' =
          IF MustPause(reputation.noOfCalls)
          THEN [reputation EXCEPT !.pc = "pause", !.wallets = w,
                                  !.answers = <<>>, !.group = <<g>>]
          ELSE [reputation EXCEPT !.pc = "lookup", !.wallets = w,
                                  !.answers = <<>>, !.group = <<g>>,
                                  !.noOfCalls = @ + 1]
    /\ UNCHANGED <<botVars, monVars, overlap, splitter, external, classifier,
                   dispatcher>>

\* 594-601, 661: the group failed the test; the loop goes on to the next one.
SkipGroup(g) ==
    /\ reputation.pc = "next"
    /\ reputation.groupsLeft > 0
    /\ reputation' =
          [reputation EXCEPT !.groupsLeft = @ - 1, !.group = <<g>>,
                             !.answers = <<>>, !.returned = <<>>,
                             !.alerted = <<FALSE>>]
    /\ UNCHANGED <<botVars, monVars, overlap, splitter, external, classifier,
                   dispatcher>>

\* 593-601: the next block of Object.entries(txsByBlock) and its test.
ReachGroup(g, w) ==
    IF Eligible(g) THEN BeginGroup(g, w) ELSE SkipGroup(g)

\* 611-616: sleep(1100) is over; the counter restarts and the call is made.
PauseDone ==
    /\ reputation.pc = "pause"
    /\ reputation' = [reputation EXCEPT !.pc = "lookup", !.noOfCalls = 1,
                                        !.lookupsSincePause = 0]
    /\ UNCHANGED <<botVars, monVars, overlap, splitter, external, classifier,
                   dispatcher>>

\* checkOldTransactions 751-767 and monitorContracts 622-660: one lookup is
\* answered; the call returns when the answer decides it, and the group is
\* skipped or alerted.
Lookup(answer) ==
    /\ reputation.pc = "lookup"
    /\ LET answers == Append(reputation.answers, answer)
           decided == \/ Throws(answer)
                      \/ HasOldTransfers(answer)
                      \/ Len(answers) = reputation.wallets
           isOldWallet == ~Throws(answer) /\ HasOldTransfers(answer)
       IN  reputation' =
              IF decided
              THEN [reputation EXCEPT
                       !.pc = "next",
                       !.groupsLeft = @ - 1,
                       !.lookupsSincePause = @ + 1,
                       !.answers = answers,
                       !.returned = <<isOldWallet>>,
                       !.alerted = <<~isOldWallet>>]
              ELSE [reputation EXCEPT
                       !.lookupsSincePause = @ + 1,
                       !.answers = answers]
    /\ UNCHANGED <<botVars, monVars, overlap, splitter, external, classifier,
                   dispatcher>>

NextReputation ==
    \/ \E g \in GroupKinds, w \in 1..MAX_WALLETS : ReachGroup(g, w)
    \/ PauseDone
    \/ \E a \in Answers : Lookup(a)

InitReputation ==
    /\ BotIdle /\ MonitorIdle
    /\ reputation = ReputationStart
    /\ overlap = OverlapIdle /\ splitter = SplitterIdle
    /\ external = ExternalIdle /\ classifier = ClassifierIdle
    /\ dispatcher = DispatcherIdle

SpecReputation == InitReputation /\ [][NextReputation]_vars

-----------------------------------------------------------------------------
\* The pattern classifier of the internal-transfer variant
\* (monitor.ts 800-936): detectPattern, analyzePattern and their helpers.
\*
\* A value is a decimal number of ETH, written as a whole number of units of
\* 10^-decimals ETH; the arithmetic on values is exact.  Two grids are used:
\* a fine one (9 decimals) on which the 1e-8 tolerance of the differences is
\* 10 units, and a coarse one (5 decimals) on which values above 0.1 ETH and
\* ratios closer than 1e-8 occur while every product stays below 2^31.

MaxValues == 4    \* longest list of values classified

FineDecimals   == {9}
FineUnits      == {1, 2, 3, 4, 6, 8, 50, 1001, 2002}
CoarseDecimals == {5}
CoarseUnits    == {3000, 5000, 10946, 17711, 28657}

ListsOf(S) == UNION {[1..n -> S] : n \in 0..MaxValues}

Abs(x) == IF x < 0 THEN 0 - x ELSE x

\* [...values].sort((a, b) => a - b)
RECURSIVE InsertAsc(_, _)
InsertAsc(s, v) ==
    IF s = <<>> THEN <<v>>
    ELSE IF v < Head(s) THEN <<v>> \o s
    ELSE <<Head(s)>> \o InsertAsc(Tail(s), v)

RECURSIVE SortAsc(_)
SortAsc(values) ==
    IF values = <<>> THEN <<>>
    ELSE InsertAsc(SortAsc(SubSeq(values, 1, Len(values) - 1)),
                   values[Len(values)])

\* The largest whole number of units that is at most 10^-digits ETH, and the
\* smallest that is at least 10^-digits ETH (decimals is below 15).
ToleranceFloor(digits, decimals) ==
    IF decimals >= digits THEN 10^(decimals - digits) ELSE 0

ToleranceCeil(digits, decimals) ==
    IF decimals >= digits THEN 10^(decimals - digits) ELSE 1

\* const epsilon = 1e-15; values.every((v) => Math.abs(v - values[0]) < epsilon)
IsUniform(values, decimals) ==
    \A i \in 1..Len(values) :
        Abs(values[i] - values[1]) < ToleranceCeil(15, decimals)

\* A number or null: found is FALSE for null; a ratio is num / den.
NullNumber == [found |-> FALSE, num |-> 0, den |-> 1]
Number(n, d) == [found |-> TRUE, num |-> n, den |-> d]

\* if (x): null and 0 are falsy.
Truthy(x) == x.found /\ x.num # 0

\* sorted[0] > 0.1 ? 1e-8 : 1e-15, as the number of digits of the tolerance
GeometricEpsilonDigits(sorted, decimals) ==
    IF sorted[1] * 10 > 10^decimals THEN 8 ELSE 15

\* Math.abs(sorted[i] / sorted[i - 1] - ratio) > epsilon, with
\* ratio = sorted[1] / sorted[0]: the two quotients differ by
\* |sorted[i] * sorted[0] - sorted[1] * sorted[i - 1]| over the product
\* sorted[i - 1] * sorted[0], which is below 2^31 < 10^10.
RatioDiffers(sorted, i, digits) ==
    LET cross   == Abs(sorted[i] * sorted[1] - sorted[2] * sorted[i - 1])
        product == sorted[i - 1] * sorted[1]
    IN  cross > (IF digits > 9 THEN 0 ELSE product \div 10^digits)

RECURSIVE GeometricLoop(_, _, _)
GeometricLoop(sorted, i, digits) ==
    IF i > Len(sorted) THEN Number(sorted[2], sorted[1])
    ELSE IF RatioDiffers(sorted, i, digits) THEN NullNumber
    ELSE GeometricLoop(sorted, i + 1, digits)

\* The variant that returns the first ratio without comparing the others.
CheckGeometricProgressionFirstRatio(sorted, decimals) ==
    IF Len(sorted) < 2 THEN NullNumber ELSE Number(sorted[2], sorted[1])

CheckGeometricProgression(sorted, decimals) ==
    IF Len(sorted) < 2 THEN NullNumber
    ELSE GeometricLoop(sorted, 2, GeometricEpsilonDigits(sorted, decimals))

RECURSIVE SteppedLoop(_, _, _)
SteppedLoop(sorted, i, decimals) ==
    LET increment == sorted[2] - sorted[1]
    IN  IF i > Len(sorted) THEN Number(increment, 1)
        ELSE IF Abs((sorted[i] - sorted[i - 1]) - increment)
                    > ToleranceFloor(8, decimals)
             THEN NullNumber
        ELSE SteppedLoop(sorted, i + 1, decimals)

CheckSteppedDistribution(sorted, decimals) ==
    IF Len(sorted) < 2 THEN NullNumber ELSE SteppedLoop(sorted, 2, decimals)

RECURSIVE NumDigits(_)
NumDigits(k) == IF k < 10 THEN 1 ELSE 1 + NumDigits(k \div 10)

RECURSIVE TrailingZeros(_)
TrailingZeros(k) == IF k % 10 # 0 THEN 0 ELSE 1 + TrailingZeros(k \div 10)

\* (v.toString().split(".")[1] || "").length for a positive v: values from
\* 1e-6 on print in fixed notation with their decimals, smaller ones as
\* d.ddde-x, where what follows the point includes the exponent.
DecimalPartLength(k, decimals) ==
    IF NumDigits(k) + 5 >= decimals
    THEN IF TrailingZeros(k) >= decimals THEN 0
         ELSE decimals - TrailingZeros(k)
    ELSE LET mantissa == NumDigits(k) - TrailingZeros(k)
         IN  IF mantissa = 1 THEN 0
             ELSE (mantissa - 1) + 2 + NumDigits(decimals - NumDigits(k) + 1)

CalculatePrecision(values, decimals) ==
    Max({DecimalPartLength(values[i], decimals) : i \in 1..Len(values)})

\* Variant: the band of end is tested before the band of middle.
DetermineRangeEndFirst(value, decimals) ==
    LET milli == 10^(decimals - 3)
    IN  IF value >= 27 * milli /\ value <= 45 * milli THEN "start"
        ELSE IF value >= 150 * milli /\ value <= 380 * milli THEN "end"
        ELSE IF value >= 50 * milli /\ value <= 150 * milli THEN "middle"
        ELSE "unknown"

\* The bands 0.027..0.045, 0.05..0.15 and 0.15..0.38 ETH.
DetermineRange(value, decimals) ==
    LET milli == 10^(decimals - 3)
    IN  IF value >= 27 * milli /\ value <= 45 * milli THEN "start"
        ELSE IF value >= 50 * milli /\ value <= 150 * milli THEN "middle"
        ELSE IF value >= 150 * milli /\ value <= 380 * milli THEN "end"
        ELSE "unknown"

PatternAnalysis(type, sorted, values, decimals, ratio, increment) ==
    [type |-> type, startValue |-> sorted[1], endValue |-> sorted[Len(sorted)],
     precision |-> CalculatePrecision(values, decimals),
     ratio |-> ratio, increment |-> increment,
     range |-> DetermineRange(sorted[1], decimals)]

Analysis(values, decimals) ==
    LET sorted    == SortAsc(values)
        precision == CalculatePrecision(values, decimals)
        geoRatio  == CheckGeometricProgression(sorted, decimals)
        increment == CheckSteppedDistribution(sorted, decimals)
    IN  IF IsUniform(values, decimals)
        THEN PatternAnalysis("uniform", sorted, values, decimals,
                             NullNumber, NullNumber)
        ELSE IF Truthy(geoRatio)
        THEN PatternAnalysis(IF precision > 8 THEN "high-precision"
                                              ELSE "geometric",
                             sorted, values, decimals, geoRatio, NullNumber)
        ELSE IF Truthy(increment)
        THEN PatternAnalysis("stepped", sorted, values, decimals,
                             NullNumber, increment)
        ELSE PatternAnalysis("varied", sorted, values, decimals,
                             NullNumber, NullNumber)

\* x.toFixed(4) of the quotient num / (den * 10^decimals), in units of 1e-4,
\* halves rounded up.
ToFixed4(num, den, decimals) ==
    LET d == den * 10^(decimals - 4)
    IN  (2 * num + d) \div (2 * d)

RatioToFixed4(ratio) == (2 * ratio.num * 10^4 + ratio.den) \div (2 * ratio.den)

Description(label, range, shown) ==
    [label |-> label, range |-> range, shown |-> shown]

Unknown == Description("unknown", "unknown", <<>>)

PatternDescription(analysis, decimals) ==
    IF analysis.type = "high-precision"
    THEN Description("high-precision geometric", analysis.range,
                     <<RatioToFixed4(analysis.ratio), analysis.precision>>)
    ELSE IF analysis.type = "geometric"
    THEN Description("geometric", analysis.range,
                     <<RatioToFixed4(analysis.ratio)>>)
    ELSE IF analysis.type = "stepped"
    THEN Description("stepped", analysis.range,
                     <<ToFixed4(analysis.increment.num, 1, decimals)>>)
    ELSE IF analysis.type = "uniform"
    THEN Description("uniform", analysis.range,
                     <<ToFixed4(analysis.startValue, 1, decimals)>>)
    ELSE Description("varied", analysis.range,
                     <<ToFixed4(analysis.startValue, 1, decimals),
                       ToFixed4(analysis.endValue, 1, decimals)>>)

\* The variant that lets a single value through to the analysis.
TooFewValuesOnlyEmpty(values) == Len(values) < 1

\* if (values.length < 2) return "unknown";
TooFewValues(values) == Len(values) < 2

NoAnalysis ==
    [type |-> "none", startValue |-> 0, endValue |-> 0, precision |-> 0,
     ratio |-> NullNumber, increment |-> NullNumber, range |-> "unknown"]

NoDescription == Description("none", "unknown", <<>>)

ClassifierCall(decimals, values) ==
    [pc |-> "detect", decimals |-> decimals, values |-> values,
     analysis |-> NoAnalysis, description |-> NoDescription]

ClassifierCalls ==
    {ClassifierCall(d, vs) : d \in FineDecimals, vs \in ListsOf(FineUnits)}
        \cup
    {ClassifierCall(d, vs) : d \in CoarseDecimals, vs \in ListsOf(CoarseUnits)}

\* detectPattern up to the call of analyzePattern.
DetectPattern ==
    /\ classifier.pc = "detect"
    /\ classifier' =
           IF TooFewValues(classifier.values)
           THEN [classifier EXCEPT !.pc = "done", !.description = Unknown]
           ELSE [classifier EXCEPT !.pc = "analyze"]
    /\ UNCHANGED <<botVars, monVars, reputation, overlap, splitter, external,
                   dispatcher>>

AnalyzePattern ==
    /\ classifier.pc = "analyze"
    /\ classifier' =
           [classifier EXCEPT
               !.pc = "format",
               !.analysis = Analysis(classifier.values, classifier.decimals)]
    /\ UNCHANGED <<botVars, monVars, reputation, overlap, splitter, external,
                   dispatcher>>

FormatPatternDescription ==
    /\ classifier.pc = "format"
    /\ classifier' =
           [classifier EXCEPT
               !.pc = "done",
               !.description =
                   PatternDescription(classifier.analysis, classifier.decimals)]
    /\ UNCHANGED <<botVars, monVars, reputation, overlap, splitter, external,
                   dispatcher>>

NextClassifier ==
    \/ DetectPattern
    \/ AnalyzePattern
    \/ FormatPatternDescription

InitClassifier ==
    /\ BotIdle /\ MonitorIdle
    /\ classifier \in ClassifierCalls
    /\ reputation = ReputationIdle /\ overlap = OverlapIdle
    /\ splitter = SplitterIdle /\ external = ExternalIdle
    /\ dispatcher = DispatcherIdle

SpecClassifier == InitClassifier /\ [][NextClassifier]_vars

-----------------------------------------------------------------------------
\* Properties of the poll cycle (specification Spec).

\* A cycle that got a chain head has run to its end.
CycleDone == cyclePc = "done" /\ currentBlock # 0

\* The messages of one address among those handed to the dispatcher.
RECURSIVE HandedTo(_, _)
HandedTo(seq, name) ==
    IF seq = <<>> THEN <<>>
    ELSE IF Head(seq).name = name
         THEN <<Head(seq)>> \o HandedTo(Tail(seq), name)
         ELSE HandedTo(Tail(seq), name)

HighestBlock(name) == Max({g.block : g \in contractTransactions[name].transactions})

\* C1: for every watched address, once its checkpoint is initialised,
\* lastBlockChecked never decreases.  Within one cycle an address's checkpoint is
\* written at most once, so a step that lowers it is a cycle that lowers it.
\* Stated for the cycles in which nothing fails, which the claim includes.
C1_LastBlockCheckedNonDecreasing ==
    [][(\A n \in Names : failedAt[n] = "none" /\ failedAt'[n] = "none") =>
          \A n \in Names :
              lastBlockChecked[n] # 0 => lastBlockChecked'[n] >= lastBlockChecked[n]]_vars

\* C2: when the fetch of an address failed, its checkpoint after the cycle is
\* the block its fetch started from, so that the same range is fetched again.
C2_FetchFailureKeepsCheckpoint ==
    CycleDone =>
        \A n \in Names :
            failedAt[n] = "fetch" => lastBlockChecked[n] = startBlock[n]

\* C8: whatever failed for the other addresses, an address without a failure
\* of its own ends the cycle fetched, with the checkpoint its own fetch result
\* calls for and with exactly its own alerts handed to the dispatcher.
C8_FailureIsolated ==
    CycleDone =>
        \A n \in Names :
            failedAt[n] = "none" =>
                LET ct == contractTransactions[n]
                IN  /\ ct.fetched
                    /\ lastBlockChecked[n] =
                           IF ct.transactions = {} THEN currentBlock
                           ELSE HighestBlock(n) + 1
                    /\ HandedTo(handed, n) =
                           MessagesFor("MAIN", n, ct.transactions, vetoes[n])
                           \o MessagesFor("COPY", n, ct.transactions, vetoes[n])

\* Reached: the first address failed while it was processed or sent, and the
\* second one, processed after it, had its alerts handed over.
C8_Witness ==
    /\ CycleDone
    /\ failedAt[ADDRESS[1]] \in {"process", "send"}
    /\ failedAt[ADDRESS[2]] = "none"
    /\ HandedTo(handed, ADDRESS[2]) # <<>>

\* C9: after a cycle in which the fetch of an address returned transactions
\* and nothing failed for it, its checkpoint is the highest fetched block + 1,
\* whatever was ineligible or vetoed.
C9_CheckpointIsHighestBlockPlusOne ==
    CycleDone =>
        \A n \in Names :
            (failedAt[n] = "none" /\ contractTransactions[n].transactions # {})
                => lastBlockChecked[n] = HighestBlock(n) + 1

\* Reached: such an address whose highest block was ineligible or vetoed.
C9_Witness ==
    /\ CycleDone
    /\ \E n \in Names :
          /\ failedAt[n] = "none"
          /\ \E g \in contractTransactions[n].transactions :
                /\ g.block = HighestBlock(n)
                /\ ~Eligible(g) \/ g.block \in vetoes[n]
                /\ lastBlockChecked[n] = g.block + 1

\* C10: after a cycle in which the fetch of an address succeeded and returned
\* nothing, its checkpoint is the chain head read at the start of the cycle.
C10_NoTransactionsCheckpointIsHead ==
    CycleDone =>
        \A n \in Names :
            (failedAt[n] = "none" /\ contractTransactions[n].transactions = {})
                => lastBlockChecked[n] = currentBlock

\* Reached: such an address, at the end of a cycle during which the chain grew.
C10_Witness ==
    /\ CycleDone
    /\ head > currentBlock
    /\ \E n \in Names :
          /\ failedAt[n] = "none"
          /\ contractTransactions[n].transactions = {}
          /\ lastBlockChecked[n] = currentBlock

\* The messages handed to the dispatcher for one group, on one channel.
AlertsOf(name, block, chat) ==
    {i \in 1..Len(handed) :
        handed[i].name = name /\ handed[i].block = block /\ handed[i].chat = chat}

\* C12: a group the reputation filter answered true for gives no message on
\* the main channel and none on the side channel in that cycle, and the later
\* groups of the same address are processed all the same: each eligible one
\* that is not vetoed itself gives its message on both channels.
C12_VetoedGroupGivesNoAlert ==
    /\ \A i \in 1..Len(handed) : handed[i].block \notin vetoes[handed[i].name]
    /\ \A i \in 1..Len(results) :
          \A j \in 1..Len(results[i].messages) :
              results[i].messages[j].block \notin vetoes[results[i].name]
    /\ CycleDone =>
          \A n \in Names :
              failedAt[n] = "none" =>
                  \A g \in contractTransactions[n].transactions :
                      IF g.block \in vetoes[n]
                      THEN /\ AlertsOf(n, g.block, "MAIN") = {}
                           /\ AlertsOf(n, g.block, "COPY") = {}
                      ELSE Eligible(g) =>
                              /\ Cardinality(AlertsOf(n, g.block, "MAIN")) = 1
                              /\ Cardinality(AlertsOf(n, g.block, "COPY")) = 1

\* Reached: the first group of an address was vetoed and its later group was
\* alerted on both channels.
C12_Witness ==
    /\ CycleDone
    /\ \E n \in Names :
          \E b \in vetoes[n] :
              \E g \in contractTransactions[n].transactions :
                  /\ g.block > b
                  /\ AlertsOf(n, b, "MAIN") = {}
                  /\ AlertsOf(n, g.block, "MAIN") # {}
                  /\ AlertsOf(n, g.block, "COPY") # {}

-----------------------------------------------------------------------------
\* Properties of the dispatcher (specifications SpecBot, SpecBurst, FairSpecBot).

SeqToSet(s) == {s[i] : i \in 1..Len(s)}

Queued == {messageQueue[i].id : i \in 1..Len(messageQueue)}

Settled(id) == id \in SeqToSet(delivered) \/ id \in SeqToSet(dropped)

\* The ids whose every finished attempt failed with a non-429 error.
AlwaysFailed(id) == attempts[id] = errAttempts[id]

\* C3: a message whose every delivery attempt fails with a non-rate-limit error
\* is attempted exactly MAX_RETRIES times, then removed and reported, and never
\* reappears in the queue.
C3_DroppedAfterMaxRetriesAttempts ==
    \A i \in 1..Len(dropped) :
        /\ dropped[i] \notin Queued
        /\ AlwaysFailed(dropped[i]) => attempts[dropped[i]] = MAX_RETRIES

\* C4: a 429 answer leaves the message at the head with its retryCount
\* unchanged (retryCount counts the non-429 failures only), the same message is
\* the next one attempted, and a message is dropped only by non-429 failures,
\* whatever the number of 429 answers it got.
C4_RateLimitedStaysHead ==
    /\ rlPending # 0 =>
          /\ messageQueue # <<>>
          /\ Head(messageQueue).id = rlPending
          /\ botPc = "inflight" => currentMessage = rlPending
    /\ \A i \in 1..Len(messageQueue) :
          messageQueue[i].retryCount = errAttempts[messageQueue[i].id]
    /\ \A i \in 1..Len(dropped) :
          errAttempts[dropped[i]] = MAX_RETRIES + 1

\* The same message is attempted again after two 429 answers and cooldowns,
\* having failed once otherwise.
C4_Witness ==
    /\ rlPending # 0
    /\ rlLeft = 0
    /\ botPc = "inflight"
    /\ currentMessage = rlPending
    /\ errAttempts[rlPending] = 1
    /\ attempts[rlPending] = MaxRateLimited + 2

\* The successful sends younger than one second at the current instant.
RecentSends == {i \in 1..Len(sentAt) : now - sentAt[i] < WINDOW_MS}

\* C5: at every instant at most MAX_MESSAGES_PER_SECOND successful sends lie
\* in the last second, and a send is in flight only if fewer than that many
\* do.
C5_AtMostTenPerSecond ==
    /\ Cardinality(RecentSends) <= MAX_MESSAGES_PER_SECOND
    /\ botPc \in {"ready", "inflight"} =>
          Cardinality(RecentSends) < MAX_MESSAGES_PER_SECOND

\* Ten sends in the last second and the eleventh message held back.
C5_Witness ==
    /\ Cardinality(RecentSends) = MAX_MESSAGES_PER_SECOND
    /\ botPc = "sleep"
    /\ messageQueue # <<>>

\* C6: only the head of the queue is attempted, a message is delivered only
\* after every message enqueued before it was delivered or dropped, and the
\* delivery order is the enqueue order.
C6_StrictFifo ==
    /\ botPc = "inflight" =>
          messageQueue # <<>> /\ currentMessage = Head(messageQueue).id
    /\ \A i \in 1..Len(delivered) :
          \A id \in 1..(delivered[i] - 1) :
              \/ \E j \in 1..(i - 1) : delivered[j] = id
              \/ id \in SeqToSet(dropped)
    /\ \A i, j \in 1..Len(delivered) : i < j => delivered[i] < delivered[j]
    /\ \A i, j \in 1..Len(messageQueue) :
          i < j => messageQueue[i].id < messageQueue[j].id

\* Message 3, enqueued while the loop ran, is delivered after message 1 was
\* delivered and message 2 was dropped.
C6_Witness ==
    /\ delivered = <<1, 3>>
    /\ dropped = <<2>>

\* Every accepted message is in exactly one place.
Accounted ==
    \A id \in 1..(nextId - 1) :
        /\ Cardinality({i \in 1..Len(messageQueue) : messageQueue[i].id = id})
             + Cardinality({i \in 1..Len(delivered) : delivered[i] = id})
             + Cardinality({i \in 1..Len(dropped) : dropped[i] = id}) = 1

-----------------------------------------------------------------------------
\* Properties of the reputation filter (specification SpecReputation).

\* checkOldTransactions has returned for the group whose answers are recorded.
Returned == reputation.pc = "next" /\ reputation.returned # <<>>

\* C11: the candidates are queried in order; the result is true exactly when
\* some candidate has more than 1 transfer and no lookup before or at it
\* failed; 0 or 1 transfers never give true; a lookup that fails gives false,
\* and the group is alerted.
C11_CheckOldTransactions ==
    Returned =>
        LET answers == reputation.answers
            isOldWallet == reputation.returned[1]
        IN  /\ isOldWallet <=>
                   \E i \in 1..Len(answers) :
                       /\ answers[i] > 1
                       /\ \A j \in 1..i : answers[j] # -1
            /\ (\A i \in 1..Len(answers) : answers[i] \in {0, 1}) => ~isOldWallet
            /\ (\E i \in 1..Len(answers) : answers[i] = -1) =>
                   ~isOldWallet /\ reputation.alerted[1]
            /\ isOldWallet = CheckOldTransactions(answers)
            /\ reputation.alerted[1] = ~isOldWallet

\* Reached: the second lookup failed after the first found one transfer, and
\* the group was alerted.
C11_Witness ==
    /\ Returned
    /\ reputation.answers = <<1, -1>>
    /\ reputation.returned = <<FALSE>>
    /\ reputation.alerted = <<TRUE>>

HeadHeldBack ==
    /\ messageQueue # <<>>
    /\ botPc = "cooldown" \/ Head(messageQueue).retryCount > 0

\* C14: the two destinations proceed independently: no message for one
\* destination waits while a message for the other destination is held back
\* by a retry or a cooldown.
C14_DestinationsIndependent ==
    HeadHeldBack =>
        \A i \in 2..Len(messageQueue) :
            messageQueue[i].chatId = Head(messageQueue).chatId

\* C18: at most 10 transfer-history lookups are issued between two forced
\* pauses of a cycle, and before the first one, counting the lookups of every
\* group.
C18_AtMostTenLookupsBetweenPauses ==
    reputation.lookupsSincePause <= MAX_CALLS

-----------------------------------------------------------------------------
\* Properties of overlapping cycles (specification SpecOverlap).

\* C15: when two cycles overlap, a checkpoint write of the older cycle never
\* replaces a value the newer cycle wrote: the cycle that wrote an address's
\* checkpoint last is never followed by one that started before it.
C15_OlderCycleNeverOverwritesNewer ==
    [][\A n \in Names : overlap'.writtenBy[n] >= overlap.writtenBy[n]]_vars

-----------------------------------------------------------------------------
\* Properties of splitMessage (specification SpecSplitter).

\* The itemized lines a string shows: its lines made of line characters.
RECURSIVE OnlyItemLines(_)
OnlyItemLines(strs) ==
    IF strs = <<>> THEN <<>>
    ELSE IF Head(strs) # <<>> /\ \A k \in 1..Len(Head(strs)) : Head(strs)[k] > 0
         THEN <<Head(strs)>> \o OnlyItemLines(Tail(strs))
         ELSE OnlyItemLines(Tail(strs))

ItemLinesOf(str) == OnlyItemLines(StrSplit(str, <<NL>>))

\* The itemized lines of the chunks, in chunk order.
RECURSIVE ItemLinesOfAll(_)
ItemLinesOfAll(chunks) ==
    IF chunks = <<>> THEN <<>>
    ELSE ItemLinesOf(Head(chunks)) \o ItemLinesOfAll(Tail(chunks))

\* C16: the itemized lines of the chunks splitMessage returns, in chunk
\* order, are the itemized lines of the message: none lost, repeated, moved
\* or cut by a chunk boundary.
C16_SplitKeepsItemLines ==
    splitter.pc = "done" =>
        ItemLinesOfAll(splitter.messages) =
            [i \in 1..Len(splitter.lens) |-> ItemLine(i, splitter.lens[i])]

\* Reached: a message of three lines was split into three chunks.
C16_Witness ==
    /\ splitter.pc = "done"
    /\ Len(splitter.lens) = 3
    /\ Len(splitter.messages) = 3
    /\ Len(splitter.msg) > splitter.maxLength

-----------------------------------------------------------------------------
\* Properties of the external-transaction variant (specification SpecExternal).

\* C17: when more than 5 alerts are produced for an address, what is handed
\* to the dispatcher is a notice followed by the 5 most recent alerts, and
\* never more than 5 alerts are handed over.
C17_AtMostFiveAlertsAfterNotice ==
    external.pc = "sent" =>
        LET produced == external.messages
            handed1 == external.handed
            alerts == {i \in 1..Len(handed1) : handed1[i].kind = "alert"}
        IN  /\ Cardinality(alerts) <= NOTICE_THRESHOLD
            /\ Len(produced) > NOTICE_THRESHOLD =>
                  /\ Len(handed1) = NOTICE_THRESHOLD + 1
                  /\ handed1[1].kind = "notice"
                  /\ SubSeq(handed1, 2, Len(handed1)) =
                         SubSeq(produced, Len(produced) - NOTICE_THRESHOLD + 1,
                                Len(produced))

-----------------------------------------------------------------------------
\* Properties of the pattern classifier (specification SpecClassifier).

ClassifierOn == classifier.pc # "off"

\* C19: detectPattern returns the label unknown for every list of fewer than
\* 2 values, the empty list and every single value, and never takes such a
\* list into the analysis.
C19_FewerThanTwoIsUnknown ==
    (ClassifierOn /\ Len(classifier.values) < 2)
        => /\ classifier.pc \in {"detect", "done"}
           /\ classifier.analysis = NoAnalysis
           /\ classifier.pc = "done" => classifier.description = Unknown

\* A single value has been classified as unknown.
C19_Witness ==
    /\ ClassifierOn
    /\ classifier.pc = "done"
    /\ Len(classifier.values) = 1
    /\ classifier.description = Unknown

\* The analysis of a list of at least 2 values has been made.
Analysed ==
    /\ ClassifierOn
    /\ classifier.pc \in {"format", "done"}
    /\ Len(classifier.values) >= 2

GeometricTypes == {"geometric", "high-precision"}

\* All values are the same.
AllEqual(values) == \A i, j \in 1..Len(values) : values[i] = values[j]

\* All ratios, or all differences, of consecutive values are exactly the same.
RatiosEqual(sorted) ==
    \A i \in 2..Len(sorted) :
        sorted[i] * sorted[1] = sorted[2] * sorted[i - 1]

DifferencesEqual(sorted) ==
    \A i \in 2..Len(sorted) :
        sorted[i] - sorted[i - 1] = sorted[2] - sorted[1]

\* All ratios of consecutive values are within the tolerance of the first one:
\* 1e-8 when the least value is above 0.1 ETH, 1e-15 otherwise.
RatiosMatch(sorted, decimals) ==
    \A i \in 2..Len(sorted) :
        LET cross   == Abs(sorted[i] * sorted[1] - sorted[2] * sorted[i - 1])
            product == sorted[i - 1] * sorted[1]
        IN  IF sorted[1] * 10 > 10^decimals
            THEN cross <= product \div 10^8
            ELSE cross = 0

\* All differences of consecutive values are within 1e-8 ETH of the first one.
DifferencesMatch(sorted, decimals) ==
    \A i \in 2..Len(sorted) :
        Abs((sorted[i] - sorted[i - 1]) - (sorted[2] - sorted[1]))
            <= ToleranceFloor(8, decimals)

\* The label, ratio and increment the original statement gives a list.
ExactLabel(values) ==
    LET sorted == SortAsc(values)
    IN  IF AllEqual(values) THEN "uniform"
        ELSE IF RatiosEqual(sorted) THEN "geometric"
        ELSE IF DifferencesEqual(sorted) THEN "stepped"
        ELSE "varied"

\* The label the statement with the tolerances gives a list.
TolerantLabel(values, decimals) ==
    LET sorted == SortAsc(values)
    IN  IF AllEqual(values) THEN "uniform"
        ELSE IF RatiosMatch(sorted, decimals) THEN "geometric"
        ELSE IF sorted[2] # sorted[1] /\ DifferencesMatch(sorted, decimals)
             THEN "stepped"
        ELSE "varied"

\* The analysis carries the label, with geometric standing for both geometric
\* labels, and the fields the label comes with.
Labelled(analysis, label, sorted) ==
    /\ label = "uniform" =>
           /\ analysis.type = "uniform"
           /\ analysis.startValue = analysis.endValue
    /\ label = "geometric" =>
           /\ analysis.type \in GeometricTypes
           /\ analysis.ratio = Number(sorted[2], sorted[1])
    /\ label = "stepped" =>
           /\ analysis.type = "stepped"
           /\ analysis.increment = Number(sorted[2] - sorted[1], 1)
    /\ label = "varied" => analysis.type = "varied"

-----------------------------------------------------------------------------
\* Failures of the poll cycle (specification Spec).

\* The checkpoint the fetch of an address starts from in a cycle: the one it
\* had before the cycle, or currentBlock - initialBlocksToFetch when that one
\* was still 0.
FetchedFrom(n) ==
    IF checkedBefore[n] = 0 THEN currentBlock - initialBlocksToFetch
    ELSE checkedBefore[n]

\* C21 as stated: when the processing of an address's transactions threw, its
\* checkpoint after the cycle is its checkpoint before the cycle and no alert
\* of the address was handed to the dispatcher in the cycle.
C21_ProcessingErrorKeepsCheckpointBefore ==
    CycleDone =>
        \A n \in Names :
            failedAt[n] = "process" =>
                /\ lastBlockChecked[n] = checkedBefore[n]
                /\ HandedTo(handed, n) = <<>>

\* C21 as amended: when the processing of an address's transactions threw, its
\* checkpoint after the cycle is the one its fetch started from (its
\* checkpoint before the cycle, initialised if it was 0) and no alert of the
\* address was handed to the dispatcher in the cycle.
C21_ProcessingErrorKeepsCheckpoint ==
    CycleDone =>
        \A n \in Names :
            failedAt[n] = "process" =>
                /\ lastBlockChecked[n] = FetchedFrom(n)
                /\ HandedTo(handed, n) = <<>>

\* Reached: in a cycle after the first one, the processing of an address with
\* an eligible group threw while the chain head was past its checkpoint.
C21_Witness ==
    /\ CycleDone
    /\ \E n \in Names :
          /\ failedAt[n] = "process"
          /\ checkedBefore[n] # 0
          /\ checkedBefore[n] < currentBlock
          /\ \E g \in contractTransactions[n].transactions : Eligible(g)

-----------------------------------------------------------------------------
\* Properties of the send step with the dispatcher (specification
\* SpecDelivery).

\* C22: the checkpoint of an address is written only when every message
\* enqueued for it in the cycle has been delivered or dropped, also when the
\* sends of several addresses are in flight at the same time: sendMessage has
\* not returned while a message it enqueued is in the queue.
C22_CheckpointAfterDelivery ==
    external.pc = "awaiting" =>
        \A n \in Names \ external.awaiting :
            \A id \in external.ids[n] : Settled(id)

-----------------------------------------------------------------------------
\* Termination of the drain (specification FairSpecDrain).

\* C23: whatever the sink answers, a processing loop that runs eventually
\* ends: the dispatcher is idle again and the sendMessage call that started
\* the loop returns.
C23_DrainTerminates ==
    (dispatcher.pc \notin {"off", "idle"}) ~> (dispatcher.pc = "idle")

-----------------------------------------------------------------------------
\* sendMessage on texts (bot.ts 98-121): the call up to its first await.  A
\* text is a string of the characters NL (white space) and 1 (any other
\* character); a queue entry is {message, chatId, retryCount}.

\* Bounds of this part.
MaxTexts == 2         \* texts of one sendMessage call
MaxTextLen == 2       \* characters of a text
MaxQueued == 1        \* entries in the queue when sendMessage is called

Texts == UNION {[1..n -> {NL, 1}] : n \in 0..MaxTextLen}

\* The entries the queue may hold before the call.
QueuedMessages == [message : {<<1>>}, chatId : {"MAIN"},
                   retryCount : {0, MAX_RETRIES}]

\* Variant: the text is queued as it was given.
PushUntrimmed(queue, message, chatId) ==
    IF Trim(message) # <<>>
    THEN Append(queue, [message |-> message, chatId |-> chatId,
                        retryCount |-> 0])
    ELSE queue

\* 106-112: one turn of the loop over messages (every element is a string).
Push(queue, message, chatId) ==
    IF Trim(message) # <<>>
    THEN Append(queue, [message |-> Trim(message), chatId |-> chatId,
                        retryCount |-> 0])
    ELSE queue

\* 105-113: for (const message of messages)
RECURSIVE PushAll(_, _, _)
PushAll(queue, messages, chatId) ==
    IF messages = <<>> THEN queue
    ELSE PushAll(Push(queue, Head(messages), chatId), Tail(messages), chatId)

\* A call of sendMessage: the queue and the flag it finds, and its arguments.
EnqueueCall(q, f, ms, c) ==
    [pc |-> "call", queue |-> q, isProcessingQueue |-> f, messages |-> ms,
     chatId |-> c, before |-> q]

\* sendMessage 99-120 and processMessageQueue 76-82: the pushes, then the
\* loop starts unless it is running or the queue is empty.
EnqueueTexts ==
    /\ dispatcher.pc = "call"
    /\ LET q == PushAll(dispatcher.queue, dispatcher.messages,
                        dispatcher.chatId)
       IN  dispatcher' =
               [dispatcher EXCEPT
                   !.pc = "pushed",
                   !.queue = q,
                   !.isProcessingQueue =
                       IF StartsLoop(dispatcher.isProcessingQueue, q)
                       THEN TRUE ELSE @]
    /\ UNCHANGED <<botVars, monVars, reputation, overlap, splitter, external,
                   classifier>>

NextEnqueue == EnqueueTexts

InitEnqueue ==
    /\ BotIdle /\ MonitorIdle
    /\ \E n \in 0..MaxQueued, m \in 0..MaxTexts :
           \E q \in [1..n -> QueuedMessages], f \in BOOLEAN,
              ms \in [1..m -> Texts], c \in {"MAIN", "COPY"} :
               \* the flag is set only while the queue is not empty (76-95)
               /\ f => q # <<>>
               /\ dispatcher = EnqueueCall(q, f, ms, c)
    /\ reputation = ReputationIdle /\ overlap = OverlapIdle
    /\ splitter = SplitterIdle /\ external = ExternalIdle
    /\ classifier = ClassifierIdle

SpecEnqueue == InitEnqueue /\ [][NextEnqueue]_vars

-----------------------------------------------------------------------------
\* Properties of sendMessage on texts.

\* A text that is not empty after trimming.
NonBlank(text) == \E i \in 1..Len(text) : text[i] # NL

\* Neither the first nor the last character is white space.
IsTrimmed(text) == text = <<>> \/ (text[1] # NL /\ text[Len(text)] # NL)

\* text without the white space at its ends.
Trimmed(text) ==
    CHOOSE t \in Texts :
        /\ IsTrimmed(t)
        /\ \E i, j \in 0..Len(text) :
               /\ i + j + Len(t) = Len(text)
               /\ text = [k \in 1..i |-> NL] \o t \o [k \in 1..j |-> NL]

\* C24: sendMessage leaves the entries of the queue as they were and appends
\* to them, in the order given, the texts that are not empty after trimming,
\* each trimmed, for the given chat and with retryCount 0; the other texts
\* are skipped.
C24_EnqueueAppendsTrimmedTexts ==
    (dispatcher.pc = "pushed") =>
        LET kept == SelectSeq(dispatcher.messages, NonBlank)
        IN  dispatcher.queue =
                dispatcher.before
                \o [i \in 1..Len(kept) |->
                       [message |-> Trimmed(kept[i]),
                        chatId |-> dispatcher.chatId, retryCount |-> 0]]

\* A call that finds an entry in the queue, skips its first text and trims
\* its second.
C24_Witness ==
    /\ dispatcher.pc = "pushed"
    /\ dispatcher.before # <<>>
    /\ Len(dispatcher.messages) = 2
    /\ ~NonBlank(dispatcher.messages[1])
    /\ dispatcher.messages[2] = <<NL, 1>>
    /\ Len(dispatcher.queue) = Len(dispatcher.before) + 1

-----------------------------------------------------------------------------
\* Properties of the eligibility test (specification SpecReputation).

\* The group the loop reached last has at least minTransactions transfers,
\* none of them below MIN_TRANSACTION_AMOUNT.
MeetsMinimums(r) ==
    /\ r.group[1].count >= 20
    /\ r.group[1].minValue >= MIN_TRANSACTION_AMOUNT

\* The loop goes from one group to the next.
GroupReached == reputation.pc = "next" /\ reputation' # reputation

\* C25: a group is taken to the throttle and the reputation check only if it
\* has at least 20 transfers, each of at least MIN_TRANSACTION_AMOUNT; for any
\* other group no lookup is made, noOfCalls keeps its value and no message is
\* produced.
C25_IneligibleGroupIsSkipped ==
    [][GroupReached =>
          /\ reputation'.pc \in {"pause", "lookup"} => MeetsMinimums(reputation')
          /\ ~MeetsMinimums(reputation') =>
                 /\ reputation'.pc = "next"
                 /\ reputation'.noOfCalls = reputation.noOfCalls
                 /\ reputation'.lookupsSincePause = reputation.lookupsSincePause
                 /\ reputation'.answers = <<>>
                 /\ reputation'.alerted = <<FALSE>>]_vars

\* Reached: after three eligible groups, a group of 20 transfers, one of them
\* below the minimum, was skipped.
C25_Witness ==
    /\ reputation.pc = "next"
    /\ reputation.group # <<>>
    /\ reputation.group[1].count >= 20
    /\ reputation.group[1].minValue < MIN_TRANSACTION_AMOUNT
    /\ reputation.noOfCalls = 3
    /\ reputation.alerted = <<FALSE>>
    /\ reputation.answers = <<>>

-----------------------------------------------------------------------------
\* The dispatcher with a sink whose rejection is no Error object: the catch of
\* sendSingleMessage throws at error.toString() (bot.ts 49), the exception
\* leaves the loop at 85 and is caught at 91.  The dispatcher variable counts
\* these rejections and records the queue they left.

\* Bounds of this part.
ThrowMsgs == 3          \* messages the callers enqueue
ThrowErrors == 1        \* non-429 errors of the sink
ThrowRateLimited == 1   \* its 429 answers
MaxThrows == 1          \* its rejections without a toString

ThrowStart ==
    [pc |-> "bot", throwsLeft |-> MaxThrows, left |-> <<>>, nextIdAtThrow |-> 0]

\* Variant: no finally; the flag is left as it is.
FlagAfterLoopKept(processing) == processing

\* finally { this.isProcessingQueue = false; }
FlagAfterLoop(processing) == FALSE

\* sendSingleMessage 48-49 and processMessageQueue 85, 91-95: the send is
\* rejected and the catch throws; the loop ends.
LoopThrows ==
    /\ botPc = "inflight"
    /\ dispatcher.pc = "bot"
    /\ dispatcher.throwsLeft > 0
    /\ dispatcher' = [dispatcher EXCEPT
                         !.throwsLeft = @ - 1,
                         !.left = [i \in 1..Len(messageQueue) |->
                                      messageQueue[i].id],
                         !.nextIdAtThrow = nextId]
    /\ isProcessingQueue' = FlagAfterLoop(isProcessingQueue)
    /\ botPc' = "idle"
    /\ activeLoops' = activeLoops - 1
    /\ UNCHANGED <<messageQueue, messagesSentTimestamps, currentMessage,
                   wakeAt, now, enqLeft, errLeft, rlLeft, ticksLeft, nextId,
                   attempts, errAttempts, delivered, sentAt, dropped,
                   rlPending, chatIds>>
    /\ UNCHANGED <<monVars, reputation, overlap, splitter, external,
                   classifier>>

NextThrow ==
    \/ NextBot
    \/ LoopThrows

InitThrow ==
    /\ InitBotWith(ThrowMsgs, ThrowErrors, ThrowRateLimited, {"MAIN"})
    /\ MonitorIdle
    /\ dispatcher = ThrowStart
    /\ reputation = ReputationIdle /\ overlap = OverlapIdle
    /\ splitter = SplitterIdle /\ external = ExternalIdle
    /\ classifier = ClassifierIdle

SpecThrow == InitThrow /\ [][NextThrow]_vars

-----------------------------------------------------------------------------
\* Properties of the loop left through an exception (specification SpecThrow).

\* The ids of the queue, in its order.
QueuedIds == [i \in 1..Len(messageQueue) |-> messageQueue[i].id]

\* The loop is left through an exception in this step.
Thrown == dispatcher'.throwsLeft < dispatcher.throwsLeft

\* No loop runs and messages are queued: the state an exception leaves.
LeftOver == ~isProcessingQueue /\ botPc = "idle" /\ messageQueue # <<>>

\* C26: an exception that ends the loop resets the flag and leaves the queue
\* as it was; the next sendMessage appends to the messages left and starts a
\* loop; and no message enqueued after the exception is delivered or dropped
\* before a message the exception left in the queue.
C26_ExceptionLeavesQueueForNextDrain ==
    /\ [][Thrown => /\ ~isProcessingQueue'
                    /\ messageQueue' = messageQueue
                    /\ messageQueue # <<>>]_vars
    /\ [][(LeftOver /\ nextId' > nextId) =>
              /\ isProcessingQueue'
              /\ botPc' = "wait"
              /\ activeLoops' = 1
              /\ SubSeq(QueuedIds', 1, Len(messageQueue)) = QueuedIds]_vars
    /\ [](\A i \in SeqToSet(dispatcher.left) :
             \A j \in dispatcher.nextIdAtThrow..(nextId - 1) :
                 Settled(j) => Settled(i))

\* Reached: the exception left messages 1 and 2, message 3 was enqueued
\* after it, and the three were delivered in this order.
C26_Witness ==
    /\ dispatcher.left = <<1, 2>>
    /\ dispatcher.nextIdAtThrow = 3
    /\ delivered = <<1, 2, 3>>
    /\ ~isProcessingQueue

-----------------------------------------------------------------------------
\* Properties of a cycle whose head read failed (specification Spec).

\* The cycle returned at "if (!currentBlock) return".
HeadReadFailed == cyclePc = "done" /\ currentBlock = 0

\* C27: a cycle that cannot read the chain head fetches nothing, hands no
\* message to the dispatcher and leaves every checkpoint as it was; the next
\* cycle fetches from these checkpoints (initialised if they are still 0).
C27_FailedHeadReadChangesNothing ==
    /\ [](HeadReadFailed =>
             /\ lastBlockChecked = checkedBefore
             /\ handed = <<>>
             /\ results = <<>>
             /\ \A n \in Names : ~contractTransactions[n].fetched)
    /\ [][(HeadReadFailed /\ cyclePc' = "fetch") =>
             \A n \in Names :
                 startBlock'[n] =
                     IF checkedBefore[n] = 0
                     THEN head - initialBlocksToFetch
                     ELSE checkedBefore[n]]_vars

\* Reached: the head read failed in a cycle after one that moved the
\* checkpoints, while a new block with transfers was waiting.
C27_Witness ==
    /\ HeadReadFailed
    /\ \A n \in Names : checkedBefore[n] # 0
    /\ \E n \in Names : checkedBefore[n] < head
    /\ \E g \in chain : g.block = head /\ Eligible(g)

-----------------------------------------------------------------------------
\* Properties of the cap on the transactions of the external-transaction
\* variant (specification SpecExternal).

\* The source returned more transactions than the cap.
OverCap == external.limit # NAN /\ Len(external.fetched) > external.limit

\* C28: when the source returns more transactions than LIMIT_TRANSACTIONS,
\* the last LIMIT_TRANSACTIONS of them are kept, the alerts are those of the
\* blocks of the kept transactions, and the checkpoint written is one past
\* the highest block of all the transactions returned.
C28_NewestKeptCheckpointFromAll ==
    (external.pc = "sent" /\ OverCap) =>
        LET all == external.fetched
            cap == external.limit
            kept == external.transactions
            alerts == {external.messages[i].block :
                          i \in 1..Len(external.messages)}
        IN  /\ Len(kept) = cap
            /\ \A i \in 1..cap : kept[i] = all[Len(all) - cap + i]
            /\ alerts = {all[i] : i \in (Len(all) - cap + 1)..Len(all)}
            /\ \A i \in 1..Len(external.messages) :
                   external.messages[i].kind = "alert"
            /\ \A i \in 1..Len(all) : all[i] < external.lastBlockChecked
            /\ \E i \in 1..Len(all) : all[i] + 1 = external.lastBlockChecked

\* Reached: eight transactions in blocks 1 to 6 were returned under a cap of
\* 5; those of blocks 1 and 2 were dropped.
C28_Witness ==
    /\ external.pc = "sent"
    /\ external.limit = 5
    /\ external.fetched = <<1, 2, 2, 3, 4, 5, 6, 6>>
    /\ external.transactions = <<3, 4, 5, 6, 6>>
    /\ external.lastBlockChecked = 7

-----------------------------------------------------------------------------
\* Properties of the length of the chunks (specification SpecSplitter).

\* The header block and any one itemized line fit into maxLength.
HeaderAndOneLineFit ==
    \A i \in 1..Len(splitter.lens) :
        Len(Header \o SEPARATOR) + splitter.lens[i] <= splitter.maxLength

\* C29: when the header block and one itemized line fit into maxLength, no
\* chunk splitMessage returns is longer than maxLength.
C29_ChunksWithinMaxLength ==
    (splitter.pc = "done" /\ HeaderAndOneLineFit) =>
        \A i \in 1..Len(splitter.messages) :
            Len(splitter.messages[i]) <= splitter.maxLength

\* Reached: a message was split in two chunks, and one more character would
\* not have fitted into the first.
C29_Witness ==
    /\ splitter.pc = "done"
    /\ HeaderAndOneLineFit
    /\ Len(splitter.msg) > splitter.maxLength
    /\ Len(splitter.messages) = 2
    /\ Len(splitter.messages[1]) = splitter.maxLength - 1

-----------------------------------------------------------------------------
\* Properties of the grouping (specification Spec).

\* The block range of width 50 a block falls into.
RangeOf(block) == block \div 50

\* C30: the transactions of an address are grouped by block range of width
\* 50, two transactions being in one group exactly when their blocks fall
\* into the same range; so the alerts an address gets in one cycle, one for a
\* group, are for different ranges.
C30_OneGroupPerBlockRange ==
    \A i, j \in 1..Len(handed) :
        (/\ i # j
         /\ handed[i].name = handed[j].name
         /\ handed[i].chat = handed[j].chat)
            => RangeOf(handed[i].block) # RangeOf(handed[j].block)

-----------------------------------------------------------------------------
\* The classifier on lists whose values lie at and next to the ends of the
\* bands of determineRange (values in units of 10^-5 ETH).

MaxRangeValues == 2   \* longest list of these values

BandDecimals == {5}
BandUnits == {2699, 2700, 4500, 4501, 4999, 5000, 15000, 15001, 38000, 38001}

InitRange ==
    /\ BotIdle /\ MonitorIdle
    /\ \E n \in 2..MaxRangeValues, d \in BandDecimals :
           \E vs \in [1..n -> BandUnits] : classifier = ClassifierCall(d, vs)
    /\ reputation = ReputationIdle /\ overlap = OverlapIdle
    /\ splitter = SplitterIdle /\ external = ExternalIdle
    /\ dispatcher = DispatcherIdle

SpecRange == InitRange /\ [][NextClassifier]_vars

-----------------------------------------------------------------------------
\* Properties of the range field (specification SpecRange).

\* The smallest of the values classified.
MinimumValue ==
    CHOOSE m \in SeqToSet(classifier.values) :
        \A v \in SeqToSet(classifier.values) : m <= v

\* The value lies between lo and hi thousandths of an ETH, both included.
Within(v, lo, hi) == lo * 100 <= v /\ v <= hi * 100

\* C31 as stated: the range is start exactly for a minimum in [0.027, 0.045],
\* middle exactly for [0.05, 0.15], end exactly for [0.15, 0.38] and unknown
\* otherwise.
C31_RangeBandsClosed ==
    Analysed =>
        LET range == classifier.analysis.range
            m == MinimumValue
        IN  /\ range = "start" <=> Within(m, 27, 45)
            /\ range = "middle" <=> Within(m, 50, 150)
            /\ range = "end" <=> Within(m, 150, 380)
            /\ range = "unknown" <=>
                   ~(Within(m, 27, 45) \/ Within(m, 50, 150)
                       \/ Within(m, 150, 380))

\* C31 as amended: the range depends on the minimum only and is start exactly
\* for a minimum in [0.027, 0.045], middle exactly for [0.05, 0.15], end
\* exactly for a minimum above 0.15 and up to 0.38, and unknown otherwise; the
\* minimum 0.15 is middle.
C31_RangeBands ==
    Analysed =>
        LET range == classifier.analysis.range
            m == MinimumValue
        IN  /\ range \in {"start", "middle", "end", "unknown"}
            /\ range = "start" <=> Within(m, 27, 45)
            /\ range = "middle" <=> Within(m, 50, 150)
            /\ range = "end" <=> (Within(m, 150, 380) /\ m # 150 * 100)
            /\ range = "unknown" <=>
                   ~(Within(m, 27, 45) \/ Within(m, 50, 150)
                       \/ Within(m, 150, 380))

\* Reached: the minimum 0.15, given after a larger value, is put into middle.
C31_Witness ==
    /\ Analysed
    /\ classifier.values = <<38001, 15000>>
    /\ classifier.analysis.range = "middle"

-----------------------------------------------------------------------------
\* Cycles that follow one another without a failed fetch, processing or
\* send (monitor.ts 483-495, 498-713).  The overlap variable keeps the alerts
\* of the cycles that have ended: the address and the block of each.

HistoryStart == [pc |-> "history", alerted |-> {}]

\* The address and the block of every alert handed to the main channel.
AlertedIn(msgs) ==
    {<<msgs[i].name, msgs[i].block>> :
        i \in {j \in 1..Len(msgs) : msgs[j].chat = "MAIN"}}

\* setInterval fires after the cycle before has returned.
NextCycle(headOk) ==
    /\ BeginCycle(headOk)
    /\ overlap' = [overlap EXCEPT !.alerted = @ \cup AlertedIn(handed)]
    /\ UNCHANGED <<botVars, reputation, splitter, external, classifier,
                   dispatcher>>

NextHistory ==
    \/ \E gs \in GroupsAt(head + 1) : MineBlock(gs)
    \/ \E ok \in BOOLEAN : NextCycle(ok)
    \/ \E n \in Names : Fetch(n, TRUE)
    \/ \E v \in SUBSET {g.block : g \in chain} : Process(TRUE, v)
    \/ Send("none")

InitHistory ==
    /\ InitMonitor /\ BotIdle
    /\ overlap = HistoryStart
    /\ reputation = ReputationIdle /\ splitter = SplitterIdle
    /\ external = ExternalIdle /\ classifier = ClassifierIdle
    /\ dispatcher = DispatcherIdle

SpecHistory == InitHistory /\ [][NextHistory]_vars

-----------------------------------------------------------------------------
\* Properties of the alerts over several cycles (specification SpecHistory).

\* C32: over cycles without a fetch or processing error, the transactions of
\* a block of an address are alerted at most once: no alert handed to the
\* dispatcher in a cycle is for a block alerted in a cycle before.
C32_BlockAlertedAtMostOnce ==
    AlertedIn(handed) \cap overlap.alerted = {}

-----------------------------------------------------------------------------
\* Properties of the processing flag (specification SpecThrow).

\* No exception has left the loop so far.
NoExceptionYet == dispatcher.throwsLeft = MaxThrows

\* C33: as long as no exception has left the loop, whenever control is
\* yielded a queue that is not empty has the processing flag set: no message
\* waits in the queue of an idle dispatcher.
C33_QueuedImpliesProcessing ==
    NoExceptionYet => (Len(messageQueue) > 0 => isProcessingQueue)

\* Reached: the loop waits out a 429 answer with two messages queued, after a
\* message was delivered and the loop of an earlier call had ended.
C33_Witness ==
    /\ NoExceptionYet
    /\ botPc = "cooldown"
    /\ Len(messageQueue) = 2
    /\ isProcessingQueue
    /\ delivered = <<1>>
    /\ messageQueue[1].id = 2

-----------------------------------------------------------------------------
\* The dispatcher with the calls of sendMessage told apart: the dispatcher
\* variable keeps, for every call, the id of its first message and the number
\* of its messages.

\* Bounds of this part.
CallMsgs == 3          \* messages the callers enqueue
CallErrors == 1        \* non-429 errors of the sink
CallRateLimited == 1   \* its 429 answers

CallsStart == [pc |-> "calls", calls |-> <<>>]

\* sendMessage(messages, chatId) with n texts, from any caller.
SendMessageCall(n, chatId) ==
    /\ dispatcher.pc = "calls"
    /\ Enqueue([i \in 1..n |-> chatId])
    /\ dispatcher' = [dispatcher EXCEPT
                         !.calls = Append(@, [first |-> nextId, n |-> n])]
    /\ UNCHANGED <<monVars, reputation, overlap, splitter, external,
                   classifier>>

NextCalls ==
    \/ \E n \in 1..MaxBatch, c \in chatIds : SendMessageCall(n, c)
    \/ WaitForRateLimit
    \/ SleepDone
    \/ StartSend
    \/ \E o \in Outcomes : SendSingleMessage(o)
    \/ Tick

InitCalls ==
    /\ InitBotWith(CallMsgs, CallErrors, CallRateLimited, {"MAIN", "COPY"})
    /\ MonitorIdle
    /\ dispatcher = CallsStart
    /\ reputation = ReputationIdle /\ overlap = OverlapIdle
    /\ splitter = SplitterIdle /\ external = ExternalIdle
    /\ classifier = ClassifierIdle

SpecCalls == InitCalls /\ [][NextCalls]_vars

-----------------------------------------------------------------------------
\* Properties of the messages of one call (specification SpecCalls).

\* The ids of the messages of a call.
IdsOfCall(c) == c.first..(c.first + c.n - 1)

\* The ids of seq that belong to the call are next to each other and ascend.
Contiguous(seq, c) ==
    \A i, j \in 1..Len(seq) :
        (i < j /\ seq[i] \in IdsOfCall(c) /\ seq[j] \in IdsOfCall(c)) =>
            /\ seq[i] < seq[j]
            /\ \A k \in i..j : seq[k] \in IdsOfCall(c)

\* C34: the messages of one sendMessage call lie next to each other in the
\* queue, in the order given, and are delivered in this order with no message
\* of another call between them.
C34_CallMessagesContiguous ==
    \A k \in 1..Len(dispatcher.calls) :
        /\ Contiguous(QueuedIds, dispatcher.calls[k])
        /\ Contiguous(delivered, dispatcher.calls[k])

\* Reached: a call of two messages was followed, while its first message was
\* in flight, by a call of another channel; the three were delivered in the
\* order of the calls.
C34_Witness ==
    /\ Len(dispatcher.calls) >= 2
    /\ dispatcher.calls[1].n = 2
    /\ dispatcher.calls[2].n = 1
    /\ attempts = <<1, 1, 1>>
    /\ delivered = <<1, 2, 3>>

-----------------------------------------------------------------------------
\* Properties of retryCount (specification SpecBot).

\* The retryCount of the queued message id, in the queue q.
QueuedRetryCount(q, id) == q[CHOOSE i \in 1..Len(q) : q[i].id = id].retryCount

\* A send of the message id fails in this step with an error other than 429.
FailedAttemptOf(id) ==
    /\ botPc = "inflight"
    /\ currentMessage = id
    /\ errLeft' = errLeft - 1

\* C35: the retryCount of every queued message is one of 0 .. MAX_RETRIES; it
\* never decreases, and it changes only by a failed delivery attempt of that
\* message that is no rate-limit failure, and then by exactly 1.
C35_RetryCountBounded ==
    /\ [](\A i \in 1..Len(messageQueue) :
             messageQueue[i].retryCount \in 0..MAX_RETRIES)
    /\ [][\A id \in Queued :
             (\E j \in 1..Len(messageQueue') : messageQueue'[j].id = id) =>
                 LET before == QueuedRetryCount(messageQueue, id)
                     after == QueuedRetryCount(messageQueue', id)
                 IN  /\ after >= before
                     /\ after # before =>
                            (after = before + 1 /\ FailedAttemptOf(id))]_vars

\* Reached: the second message is at the head with retryCount MAX_RETRIES,
\* after three failed attempts, while a third message waits behind it.
C35_Witness ==
    /\ Len(messageQueue) = 2
    /\ messageQueue[1].id = 2
    /\ messageQueue[1].retryCount = MAX_RETRIES
    /\ errAttempts[2] = 3
    /\ messageQueue[2].retryCount = 0

====
